---- MODULE Spec2Model ----
(***************************************************************************)
(* loudgain: the scan orchestration of AudioLibrary::scanLibrary, the      *)
(* per-file scan (AudioFile::scanFile), the album aggregation              *)
(* (AudioFolder::processResults) and the result processing of LoudGain     *)
(* (processFileResults / processFolderResults), as run by the OpenMP       *)
(* worker threads of the parallel for loops.                               *)
(*                                                                         *)
(* Levels (gain, loudness, peak) are integers in dB: a linear peak p of    *)
(* the code is held as 20*log10(p), so that pow(10, g/20) * p becomes      *)
(* g + p and log10(a/b) * 20 becomes a - b. The linear peak 0.0 is NegInf. *)
(***************************************************************************)
EXTENDS Integers, Sequences, FiniteSets, TLC

\* ---------------------------------------------------------------- bounds
MaxFiles == 2
MaxThreads == 2
FieldsPerRecord == 2

\* ------------------------------------------------------ program constants
RefLoudness == -18
OpusOffset == 5
NegInf == -1000

\* scan.hpp: enum SCANSTATUS of AudioFile and of AudioFolder
SCANSTATUS == {"INIT", "PROCESSING", "FAIL", "SUCCESS"}

LUFS_TO_RG(L) == RefLoudness - L

\* loudgain.hpp: av_container_names, and LoudGain::avContainerNameToId: the
\* index of the first name that contains str. The model applies it to "" and
\* to whole names of the list only; none of these is part of an earlier name.
av_container_names == <<"mp3", "flac", "ogg", "mov,mp4,m4a,3gp,3g2,mj2", "asf",
                        "wav", "wv", "aiff", "ape">>

avContainerNameToId(str) ==
    IF str = "" THEN -1
    ELSE IF str = "mp3" THEN 0
    ELSE IF str = "flac" THEN 1
    ELSE IF str = "ogg" THEN 2
    ELSE IF str = "mov,mp4,m4a,3gp,3g2,mj2" THEN 3
    ELSE IF str = "asf" THEN 4
    ELSE IF str = "wav" THEN 5
    ELSE IF str = "wv" THEN 6
    ELSE IF str = "aiff" THEN 7
    ELSE IF str = "ape" THEN 8
    ELSE -1

\* ------------------------------------------------------------ the inputs
\* What the measurement (FFmpeg + libebur128) finds in a file: container,
\* codec, integrated loudness, loudness range and true peak.
OggOpus == [avFormat |-> "ogg", avCodecId |-> "OPUS", loudness |-> -23, range |-> 5, peak |-> -1]
OggVorbis == [avFormat |-> "ogg", avCodecId |-> "VORBIS", loudness |-> -20, range |-> 7, peak |-> -2]
Flac == [avFormat |-> "flac", avCodecId |-> "FLAC", loudness |-> -16, range |-> 3, peak |-> -6]

\* The kinds of file a run meets. The kind of a file has no influence on
\* the scheduling: a run with one thread meets all three kinds, a run with
\* two threads two of them, a run with more threads one.
MediaKinds == <<OggVorbis, OggOpus, Flac>>
Media(nthreads) ==
    { MediaKinds[k] : k \in 1..(IF nthreads >= Len(MediaKinds) THEN 1
                                ELSE Len(MediaKinds) + 1 - nthreads) }

\* Where a scan can fail: in avformat_open_input, or while decoding and
\* measuring (container and codec are known by then). "none" is a scan that
\* succeeds.
FailPoints == {"open", "decode"}

\* The settings of a LoudGain object as main leaves them: a CSV file, a tab
\* list with tags written, and, in the runs with one thread, a CSV file
\* together with the console report and no output at all.
CsvOnly == [csvOpen |-> TRUE, tabOutput |-> FALSE, verbosity |-> 1, tagMode |-> "s", preventClipping |-> TRUE]
TabAndTags == [csvOpen |-> FALSE, tabOutput |-> TRUE, verbosity |-> 2, tagMode |-> "i", preventClipping |-> FALSE]
CsvAndConsole == [csvOpen |-> TRUE, tabOutput |-> FALSE, verbosity |-> 2, tagMode |-> "e", preventClipping |-> TRUE]
Silent == [csvOpen |-> FALSE, tabOutput |-> FALSE, verbosity |-> 1, tagMode |-> "s", preventClipping |-> FALSE]

Settings(nthreads) ==
    IF nthreads = 1 THEN {CsvOnly, TabAndTags, CsvAndConsole, Silent} ELSE {CsvOnly, TabAndTags}

\* A batch: the accepted files in path order, each with its parent folder.
\* Paths are sorted, so the files of one folder are adjacent.
IsGrouped(dirs) ==
    /\ dirs[1] = 1
    /\ \A i \in 1..(Len(dirs) - 1) : dirs[i + 1] \in {dirs[i], dirs[i] + 1}

Layouts(n) == { d \in [1..n -> 1..n] : IsGrouped(d) }

VARIABLES
    process,     \* main: where it is, its arguments, what the platform answers
    lg,          \* the LoudGain object: settings
    dirOf,       \* file -> folder of the batch
    audioFile,   \* live AudioFile objects: file -> its fields
    folderStatus,\* live AudioFolder objects: folder -> scanStatus
    useCount,    \* live AudioFolder objects: folder -> use_count of its shared_ptr
    held,        \* iteration -> the pair audio_files[i] still holds its pointers
    nextIter,    \* the next iteration the dynamic schedule hands out
    pc,          \* thread -> where it is in the loop body
    iter,        \* thread -> the iteration (file) it runs
    member,      \* thread -> index i of the loop in processFolderResults
    field,       \* thread -> fields of the current record already written
    lock,        \* holder of the unnamed omp critical section, 0 if free
    csvfile,     \* the CSV sink
    stdout,      \* the stdout sink (tab list or console report)
    cerr,        \* diagnostics written to stderr
    calls        \* counters of the calls made so far

vars == <<process, lg, dirOf, audioFile, folderStatus, useCount, held, nextIter,
          pc, iter, member, field, lock, csvfile, stdout, cerr, calls>>

NFiles == Len(dirOf)
Files == 1..NFiles
Folders == { dirOf[f] : f \in Files }
Threads == 1..lg.numberOfThreads

\* AudioFolder::audioFiles, in order
audioFiles(u) == SelectSeq([i \in 1..NFiles |-> i], LAMBDA f : dirOf[f] = u)
count(u) == Len(audioFiles(u))

\* scan.hpp: the member initialisers of AudioFile. avCodecId has none.
NewAudioFile ==
    [ scanStatus |-> "INIT", avFormat |-> "", avCodecId |-> "UNSET",
      trackGain |-> 0, trackPeak |-> NegInf, newTrackPeak |-> NegInf,
      trackLoudness |-> 0, trackLoudnessRange |-> 0, trackClips |-> FALSE,
      albumGain |-> 0, albumPeak |-> NegInf, newAlbumPeak |-> NegInf,
      albumLoudness |-> 0, albumLoudnessRange |-> 0, albumClips |-> FALSE,
      loudnessReference |-> 0, clipPrevention |-> FALSE ]

\* A record of a sink: a File row of a file or the Album row of a folder.
FileRec(f) == <<"File", f>>
AlbumRec(u) == <<"Album", u>>
Records == { FileRec(f) : f \in 1..MaxFiles } \cup { AlbumRec(u) : u \in 1..MaxFiles }

NewSink == [ rows |-> [r \in Records |-> 0], partial |-> {} ]

NewCalls ==
    [ scanFile |-> [f \in 1..MaxFiles |-> 0],
      processFileResults |-> [f \in 1..MaxFiles |-> 0],
      tagWrite |-> [f \in 1..MaxFiles |-> 0],
      processResults |-> [u \in 1..MaxFiles |-> 0],
      processFolderResults |-> [u \in 1..MaxFiles |-> 0] ]

\* main has set the options and called scanLibrary or removeReplayGainTags.
InLibrary == [at |-> "library"]

Init ==
    /\ process = InLibrary
    /\ \E n \in 1..MaxThreads, album \in BOOLEAN :
       \E s \in Settings(n) :
         lg = [ scanAlbum |-> album, csvOpen |-> s.csvOpen, tabOutput |-> s.tabOutput,
                verbosity |-> s.verbosity, tagMode |-> s.tagMode,
                preventClipping |-> s.preventClipping, maxTruePeakLevel |-> -1,
                pregain |-> 0, numberOfThreads |-> n ]
    /\ \E n \in 1..MaxFiles :
         /\ dirOf \in Layouts(n)
         /\ ~lg.scanAlbum => \A f \in 1..n : dirOf[f] = 1
    /\ audioFile = [f \in (IF lg.scanAlbum THEN Files ELSE {}) |-> NewAudioFile]
    /\ folderStatus = [u \in (IF lg.scanAlbum THEN Folders ELSE {}) |-> "INIT"]
    /\ useCount = [u \in (IF lg.scanAlbum THEN Folders ELSE {}) |-> count(u)]
    /\ held = [i \in 1..NFiles |-> lg.scanAlbum]
    /\ nextIter = 1
    /\ pc = [t \in Threads |-> "idle"]
    /\ iter = [t \in Threads |-> 0]
    /\ member = [t \in Threads |-> 0]
    /\ field = [t \in Threads |-> 0]
    /\ lock = 0
    /\ csvfile = NewSink
    /\ stdout = NewSink
    /\ cerr = {}
    /\ calls = NewCalls

\* ------------------------------------------------ AudioFile::scanFile
\* A scan that takes Opus for any other codec.
scanFileResultNoOpus(a, m, pregain, fail) ==
    [a EXCEPT !.avFormat = m.avFormat, !.avCodecId = m.avCodecId,
              !.trackGain = LUFS_TO_RG(m.loudness) + pregain,
              !.trackPeak = m.peak,
              !.trackLoudness = m.loudness,
              !.trackLoudnessRange = m.range,
              !.loudnessReference = LUFS_TO_RG(-pregain),
              !.scanStatus = "SUCCESS"]

\* The fields scanFile leaves in an AudioFile: `fail` is the point at which
\* the measurement failed, "none" if it did not.
scanFileResult(a, m, pregain, fail) ==
    IF fail = "open" THEN [a EXCEPT !.scanStatus = "FAIL"]
    ELSE IF fail = "decode"
    THEN [a EXCEPT !.scanStatus = "FAIL", !.avFormat = m.avFormat, !.avCodecId = m.avCodecId]
    ELSE LET g == IF m.avCodecId = "OPUS" THEN pregain - OpusOffset ELSE pregain
         IN [a EXCEPT !.avFormat = m.avFormat, !.avCodecId = m.avCodecId,
                      !.trackGain = LUFS_TO_RG(m.loudness) + g,
                      !.trackPeak = m.peak,
                      !.trackLoudness = m.loudness,
                      !.trackLoudnessRange = m.range,
                      !.loudnessReference = LUFS_TO_RG(-g),
                      !.scanStatus = "SUCCESS"]

\* A program whose critical sections exclude nobody.
CriticalNeverHeld == TRUE

\* The unnamed `#pragma omp critical` is one lock of the whole program.
CriticalFree == lock = 0

\* The folder and the file of the iteration a thread runs.
folderOf(t) == dirOf[iter[t]]

\* A loop over the members that always takes the first one.
targetFirst(t) == IF lg.scanAlbum THEN audioFiles(folderOf(t))[1] ELSE iter[t]

target(t) == IF lg.scanAlbum THEN audioFiles(folderOf(t))[member[t]] ELSE iter[t]

Bump(c, name, x) == [c EXCEPT ![name][x] = @ + 1]

\* A release that destroys nothing.
WithoutNone(fn, gone) == fn

\* The objects of fn that are left when those of `gone` are destroyed.
Without(fn, gone) == [x \in DOMAIN fn \ gone |-> fn[x]]

\* A loop that, like the one of scanFolder, skips the scans that are left
\* once a scan has failed.
StartScanUnlessFailed(t) ==
    /\ pc[t] = "idle"
    /\ \A t2 \in Threads : t2 < t => pc[t2] # "idle"
    /\ nextIter <= NFiles
    /\ nextIter' = nextIter + 1
    /\ IF \E x \in cerr : x[1] = "scan failed"
       THEN UNCHANGED <<audioFile, calls, pc, iter>>
       ELSE /\ iter' = [iter EXCEPT ![t] = nextIter]
            /\ audioFile' = [f \in DOMAIN audioFile \cup {nextIter} |->
                                IF f = nextIter
                                THEN [NewAudioFile EXCEPT !.scanStatus = "PROCESSING"]
                                ELSE audioFile[f]]
            /\ calls' = Bump(calls, "scanFile", nextIter)
            /\ pc' = [pc EXCEPT ![t] = "scan"]
    /\ UNCHANGED <<process, lg, dirOf, folderStatus, useCount, held, member, field,
                   lock, csvfile, stdout, cerr>>

\* The loop of scanLibrary hands the next iteration to a free thread
\* (schedule(dynamic, 1)), which enters scanFile: scanStatus = PROCESSING.
\* Free threads are alike, so the lowest one stands for any of them.
\* In album mode the AudioFile was made with its folder before the loop; in
\* track mode it is the local audio_file of the iteration (line 671).
StartScan(t) ==
    /\ pc[t] = "idle"
    /\ \A t2 \in Threads : t2 < t => pc[t2] # "idle"
    /\ nextIter <= NFiles
    /\ iter' = [iter EXCEPT ![t] = nextIter]
    /\ nextIter' = nextIter + 1
    /\ audioFile' = [f \in DOMAIN audioFile \cup {nextIter} |->
                        IF f = nextIter
                        THEN [NewAudioFile EXCEPT !.scanStatus = "PROCESSING"]
                        ELSE audioFile[f]]
    /\ calls' = Bump(calls, "scanFile", nextIter)
    /\ pc' = [pc EXCEPT ![t] = "scan"]
    /\ UNCHANGED <<process, lg, dirOf, folderStatus, useCount, held, member, field,
                   lock, csvfile, stdout, cerr>>

\* scanFile returns. A failure is reported to stderr in a critical section.
FinishScan(t) ==
    /\ pc[t] = "scan"
    /\ \E m \in Media(lg.numberOfThreads), fail \in FailPoints \cup {"none"} :
         /\ fail # "none" => CriticalFree
         /\ audioFile' = [audioFile EXCEPT ![iter[t]] =
                             scanFileResult(@, m, lg.pregain, fail)]
         /\ cerr' = IF fail = "none" THEN cerr ELSE cerr \cup {<<"scan failed", iter[t]>>}
    /\ pc' = [pc EXCEPT ![t] = IF lg.scanAlbum THEN "useCount" ELSE "fileResults"]
    /\ UNCHANGED <<process, lg, dirOf, folderStatus, useCount, held, nextIter, iter,
                   member, field, lock, csvfile, stdout, calls>>

\* ------------------------------------------ the album loop of scanLibrary
\* A task that aggregates whoever else still holds the folder.
IsAnyHolder(u) == useCount[u] >= 1

\* A task that aggregates when nobody has let go of the folder yet.
IsFirstHolder(u) == useCount[u] = count(u)

\* audio_files[i].first.use_count() == 1
IsSoleHolder(u) == useCount[u] = 1

\* A check that lets any member status pass.
canProcessResultsUnchecked(u) == TRUE

\* AudioFolder::canProcessResults
canProcessResults(u) ==
    \A i \in 1..count(u) : audioFile[audioFiles(u)[i]].scanStatus = "SUCCESS"

CheckUseCount(t) ==
    /\ pc[t] = "useCount"
    /\ pc' = [pc EXCEPT ![t] = IF IsSoleHolder(folderOf(t)) THEN "canProcess" ELSE "release"]
    /\ UNCHANGED <<process, lg, dirOf, audioFile, folderStatus, useCount, held, nextIter,
                   iter, member, field, lock, csvfile, stdout, cerr, calls>>

CanProcess(t) ==
    /\ pc[t] = "canProcess"
    /\ pc' = [pc EXCEPT ![t] =
                 IF canProcessResults(folderOf(t)) /\ folderStatus[folderOf(t)] = "INIT"
                 THEN "processResults" ELSE "release"]
    /\ UNCHANGED <<process, lg, dirOf, audioFile, folderStatus, useCount, held, nextIter,
                   iter, member, field, lock, csvfile, stdout, cerr, calls>>

\* audio_files[i].first.reset(); audio_files[i].second.reset();
\* The last pointer to go destroys the folder and, with it, its files.
Release(t) ==
    /\ pc[t] = "release"
    /\ held' = [held EXCEPT ![iter[t]] = FALSE]
    /\ LET u == folderOf(t)
       IN IF useCount[u] > 1
          THEN /\ useCount' = [useCount EXCEPT ![u] = @ - 1]
               /\ UNCHANGED <<folderStatus, audioFile>>
          ELSE /\ useCount' = Without(useCount, {u})
               /\ folderStatus' = Without(folderStatus, {u})
               /\ audioFile' = Without(audioFile, { f \in Files : dirOf[f] = u })
    /\ pc' = [pc EXCEPT ![t] = "idle"]
    /\ member' = [member EXCEPT ![t] = 0]
    /\ iter' = [iter EXCEPT ![t] = 0]
    /\ UNCHANGED <<process, lg, dirOf, nextIter, field, lock, csvfile, stdout, cerr, calls>>

\* Track mode: the iteration ends and its local audio_file is destroyed.
EndIteration(t) ==
    /\ pc[t] = "end"
    /\ audioFile' = Without(audioFile, {iter[t]})
    /\ pc' = [pc EXCEPT ![t] = "idle"]
    /\ iter' = [iter EXCEPT ![t] = 0]
    /\ UNCHANGED <<process, lg, dirOf, folderStatus, useCount, held, nextIter, member, field,
                   lock, csvfile, stdout, cerr, calls>>

\* ------------------------------------------ AudioFolder::processResults
hasDifferentContainers(u) ==
    \E i \in 2..count(u) :
        audioFile[audioFiles(u)[1]].avFormat # audioFile[audioFiles(u)[i]].avFormat

hasDifferentCodecs(u) ==
    \E i \in 2..count(u) :
        audioFile[audioFiles(u)[1]].avCodecId # audioFile[audioFiles(u)[i]].avCodecId

\* A check that never finds an Opus member.
hasOpusNever(u) == FALSE

hasOpus(u) ==
    \E i \in 1..count(u) : audioFile[audioFiles(u)[i]].avCodecId = "OPUS"

MaxOf(a, b) == IF a >= b THEN a ELSE b
MinOf(a, b) == IF a <= b THEN a ELSE b

\* The peak of the last member only.
albumPeakLast(u, i, acc) == audioFile[audioFiles(u)[count(u)]].trackPeak

\* album_peak = max over the members of trackPeak, from 0.0
RECURSIVE albumPeakOf(_, _, _)
albumPeakOf(u, i, acc) ==
    IF i > count(u) THEN acc
    ELSE albumPeakOf(u, i + 1, MaxOf(acc, audioFile[audioFiles(u)[i]].trackPeak))

\* What libebur128 answers for the members' states: either call may fail;
\* the album loudness lies between the quietest and the loudest member.
RECURSIVE extremeOf(_, _, _, _)
extremeOf(u, i, acc, wantMax) ==
    IF i > count(u) THEN acc
    ELSE LET l == audioFile[audioFiles(u)[i]].trackLoudness
         IN extremeOf(u, i + 1, IF wantMax THEN MaxOf(acc, l) ELSE MinOf(acc, l), wantMax)

RECURSIVE rangeOf(_, _, _)
rangeOf(u, i, acc) ==
    IF i > count(u) THEN acc
    ELSE rangeOf(u, i + 1, MaxOf(acc, audioFile[audioFiles(u)[i]].trackLoudnessRange))

Ebur128Answers(u) ==
    LET first == audioFile[audioFiles(u)[1]].trackLoudness
    IN { [rc |-> "loudness failed", loudness |-> 0, range |-> 0],
         [rc |-> "range failed", loudness |-> 0, range |-> 0] }
       \cup { [rc |-> "ok", loudness |-> l, range |-> rangeOf(u, 1, 0)] :
              l \in {extremeOf(u, 1, first, TRUE), extremeOf(u, 1, first, FALSE)} }

\* An adjustment made once for every Opus member of the folder.
albumPregainPerMember(u, pregain) ==
    pregain - OpusOffset * Cardinality({ i \in 1..count(u) :
                                          audioFile[audioFiles(u)[i]].avCodecId = "OPUS" })

\* if (hasOpus()) pregain -= 5.0;  lines 524-525
albumPregain(u, pregain) == IF hasOpus(u) THEN pregain - OpusOffset ELSE pregain

\* An aggregation that fails whatever the folder's status is.
processResultsAnew(u, pregain, ans) ==
    [status |-> "FAIL", files |-> audioFile, msg |-> "Album loudness fail", critical |-> FALSE]

\* processResults on folder u: the folder's new status, its members' new
\* fields, what it writes to stderr and whether that is in a critical section.
processResults(u, pregain, ans) ==
    LET same == [status |-> folderStatus[u], files |-> audioFile, msg |-> "", critical |-> FALSE]
    IN IF folderStatus[u] = "FAIL" THEN same
       ELSE IF folderStatus[u] = "SUCCESS" THEN same
       ELSE IF (hasDifferentContainers(u) \/ hasDifferentCodecs(u)) /\ hasOpus(u)
       THEN [same EXCEPT !.status = "FAIL", !.msg = "mixing Opus and non-Opus", !.critical = TRUE]
       ELSE IF ans.rc = "loudness failed"
       THEN [same EXCEPT !.status = "FAIL", !.msg = "Album loudness fail"]
       ELSE IF ans.rc = "range failed"
       THEN [same EXCEPT !.status = "FAIL", !.msg = "Album loudness range fail", !.critical = TRUE]
       ELSE LET g == albumPregain(u, pregain)
                album_peak == albumPeakOf(u, 1, NegInf)
            IN [same EXCEPT
                  !.status = "SUCCESS",
                  !.files = [f \in DOMAIN audioFile |->
                               IF dirOf[f] = u
                               THEN [audioFile[f] EXCEPT
                                       !.albumGain = LUFS_TO_RG(ans.loudness) + g,
                                       !.albumPeak = album_peak,
                                       !.albumLoudness = ans.loudness,
                                       !.albumLoudnessRange = ans.range]
                               ELSE audioFile[f]]]

ProcessResults(t) ==
    /\ pc[t] = "processResults"
    /\ \E ans \in Ebur128Answers(folderOf(t)) :
         LET r == processResults(folderOf(t), lg.pregain, ans)
         IN /\ r.critical => CriticalFree
            /\ folderStatus' = [folderStatus EXCEPT ![folderOf(t)] = r.status]
            /\ audioFile' = r.files
            /\ cerr' = IF r.msg = "" THEN cerr ELSE cerr \cup {<<r.msg, folderOf(t)>>}
    /\ calls' = Bump(calls, "processResults", folderOf(t))
    /\ pc' = [pc EXCEPT ![t] = "folderResults"]
    /\ UNCHANGED <<process, lg, dirOf, useCount, held, nextIter, iter, member, field,
                   lock, csvfile, stdout>>

\* -------------------------------------------- LoudGain::processFileResults
\* pow(10.0, gain / 20.0) * peak, in dB
DbAdd(gain, peak) == IF peak = NegInf THEN NegInf ELSE gain + peak

\* A correction that leaves the gain as it was.
uncorrectedGain(gain, gained, limit) == gain

\* gain - (log10(gained / limit) * 20.0), lines 344 and 350
correctedGain(gain, gained, limit) == gain - (gained - limit)

\* A prevention that does not look at the switch.
alwaysPrevent(clips, preventClipping) == clips

\* (trackClips || albumClips) && preventClipping, line 340
mustPrevent(clips, preventClipping) == clips /\ preventClipping

\* Lines 325-364: clip detection, clip prevention and the new peaks.
gainResolution(a, scanAlbum, preventClipping, maxTruePeakLevel) ==
    LET tpeak == maxTruePeakLevel
        apeak == maxTruePeakLevel
        tgain == DbAdd(a.trackGain, a.trackPeak)
        again == IF scanAlbum THEN DbAdd(a.albumGain, a.albumPeak) ELSE 0
        tclips == a.trackClips \/ tgain > tpeak
        aclips == a.albumClips \/ (scanAlbum /\ again > apeak)
        prevent == mustPrevent(tclips \/ aclips, preventClipping)
        tg == IF prevent /\ tclips THEN correctedGain(a.trackGain, tgain, tpeak)
              ELSE a.trackGain
        ag == IF prevent /\ scanAlbum /\ aclips THEN correctedGain(a.albumGain, again, apeak)
              ELSE a.albumGain
    IN [a EXCEPT
          !.trackClips = IF prevent /\ tclips THEN FALSE ELSE tclips,
          !.albumClips = IF prevent /\ scanAlbum /\ aclips THEN FALSE ELSE aclips,
          !.trackGain = tg,
          !.albumGain = ag,
          !.clipPrevention = a.clipPrevention \/ prevent,
          !.newTrackPeak = DbAdd(tg, a.trackPeak),
          !.newAlbumPeak = IF scanAlbum THEN DbAdd(ag, a.albumPeak) ELSE a.newAlbumPeak]

OggWriters == {"OPUS", "VORBIS", "FLAC", "SPEEX"}
Written == { [written |-> TRUE, msg |-> ""], [written |-> TRUE, msg |-> "Couldn't write to"] }
NotWritten(m) == { [written |-> FALSE, msg |-> m] }

\* Lines 366-499: the switch on tagMode, container and codec. Each outcome
\* says whether a tag writer was invoked and what went to stderr. A codec id
\* that was never assigned is read as any value.
tagOutcomes(a, tagMode) ==
    IF tagMode \in {"i", "e"}
    THEN LET id == avContainerNameToId(a.avFormat)
         IN IF id = -1 THEN NotWritten("Couldn't determine file format")
            ELSE IF id = 2
            THEN IF a.avCodecId = "UNSET" THEN Written \cup NotWritten("Codec not supported")
                 ELSE IF a.avCodecId \in OggWriters THEN Written
                 ELSE NotWritten("Codec not supported")
            ELSE Written
    ELSE IF tagMode = "s" THEN NotWritten("")
    ELSE NotWritten("Invalid tag mode")

HasCsv == lg.csvOpen
\* A program that prints no row to stdout.
HasOutNever == FALSE

HasOut == lg.tabOutput \/ lg.verbosity >= 2

\* A loop that takes its first member for the last one.
IsFirstMember(t) == member[t] = 1

\* i == (audio_album.count() - 1), line 596
IsLastMember(t) == member[t] = count(folderOf(t))

\* A loop that goes on to the Album row in track mode as well.
afterStageAlbumAlways(t, stage) ==
    LET here == [pc |-> "idle", member |-> member[t], iter |-> iter[t]]
    IN IF stage = "gain" /\ HasCsv THEN [here EXCEPT !.pc = "csvRow"]
       ELSE IF stage \in {"gain", "csv"} /\ HasOut THEN [here EXCEPT !.pc = "outRow"]
       ELSE IF ~lg.scanAlbum
       THEN [here EXCEPT !.pc = IF HasCsv \/ HasOut THEN "albumRow" ELSE "end"]
       ELSE IF IsLastMember(t) THEN [here EXCEPT !.pc = "albumRow"]
       ELSE [here EXCEPT !.pc = "fileResults", !.member = @ + 1]

\* Where a thread goes after a stage of processFileResults on its target:
\* to the next output of the file, or back to its caller.
afterStage(t, stage) ==
    LET here == [pc |-> "idle", member |-> member[t], iter |-> iter[t]]
    IN IF stage = "gain" /\ HasCsv THEN [here EXCEPT !.pc = "csvRow"]
       ELSE IF stage \in {"gain", "csv"} /\ HasOut THEN [here EXCEPT !.pc = "outRow"]
       ELSE IF ~lg.scanAlbum THEN [here EXCEPT !.pc = "end"]
       ELSE IF IsLastMember(t) THEN [here EXCEPT !.pc = "albumRow"]
       ELSE [here EXCEPT !.pc = "fileResults", !.member = @ + 1]

FileResults(t) ==
    /\ pc[t] = "fileResults"
    /\ LET f == target(t)
           a == gainResolution(audioFile[f], lg.scanAlbum, lg.preventClipping,
                               lg.maxTruePeakLevel)
       IN /\ audioFile' = [audioFile EXCEPT ![f] = a]
          /\ \E o \in tagOutcomes(a, lg.tagMode) :
               /\ o.msg # "" => CriticalFree
               /\ cerr' = IF o.msg = "" THEN cerr ELSE cerr \cup {<<o.msg, f>>}
               /\ calls' = IF o.written
                           THEN Bump(Bump(calls, "processFileResults", f), "tagWrite", f)
                           ELSE Bump(calls, "processFileResults", f)
    /\ pc' = [pc EXCEPT ![t] = afterStage(t, "gain").pc]
    /\ member' = [member EXCEPT ![t] = afterStage(t, "gain").member]
    /\ iter' = [iter EXCEPT ![t] = afterStage(t, "gain").iter]
    /\ UNCHANGED <<process, lg, dirOf, folderStatus, useCount, held, nextIter,
                   field, lock, csvfile, stdout>>

\* ------------------------------------------ LoudGain::processFolderResults
\* A check that takes every album for a successful one.
albumScanPassed(u) == TRUE

\* audio_album.scanStatus != AudioFolder::SUCCESS, line 570, negated
albumScanSucceeded(u) == folderStatus[u] = "SUCCESS"

\* Lines 563-589: the checks before the loop over the members.
FolderResults(t) ==
    /\ pc[t] = "folderResults"
    /\ LET u == folderOf(t)
           mixed == hasDifferentContainers(u) \/ hasDifferentCodecs(u)
       IN IF ~albumScanSucceeded(u)
          THEN /\ CriticalFree
               /\ cerr' = cerr \cup {<<"Album scan failed", u>>}
               /\ pc' = [pc EXCEPT ![t] = "release"]
               /\ member' = member
          ELSE /\ mixed => CriticalFree
               /\ cerr' = IF ~mixed THEN cerr
                          ELSE cerr \cup {<<"different file types", u>>}
                               \cup (IF hasOpus(u) THEN {<<"mixing Opus and non-Opus", u>>}
                                     ELSE {})
               /\ pc' = [pc EXCEPT ![t] = IF mixed /\ hasOpus(u) THEN "release"
                                           ELSE "fileResults"]
               /\ member' = [member EXCEPT ![t] = 1]
    /\ calls' = Bump(calls, "processFolderResults", folderOf(t))
    /\ UNCHANGED <<process, lg, dirOf, audioFile, folderStatus, useCount, held, nextIter,
                   iter, field, lock, csvfile, stdout>>

\* ------------------------------------------------------------ the sinks
\* One field of record r goes to a sink: k fields of r are already there.
writeField(sink, r, k) ==
    [ rows |-> IF k = 0 THEN [sink.rows EXCEPT ![r] = @ + 1] ELSE sink.rows,
      partial |-> IF k + 1 = FieldsPerRecord THEN sink.partial \ {r}
                  ELSE sink.partial \cup {r} ]

\* The thread at a writing position puts the next field of its record into
\* the sink of that position; after the last field of the last record of
\* the critical section it leaves the section.
putField(t, at) ==
    LET r == IF at \in {"csvWrite", "outWrite"} THEN FileRec(target(t))
             ELSE AlbumRec(folderOf(t))
        last == field[t] + 1 = FieldsPerRecord
        more == at = "albumCsv" /\ HasOut
        next == IF at = "csvWrite" THEN afterStage(t, "csv")
                ELSE IF at = "outWrite" THEN afterStage(t, "out")
                ELSE IF more THEN [pc |-> "albumOut", member |-> member[t], iter |-> iter[t]]
                ELSE [pc |-> "release", member |-> member[t], iter |-> iter[t]]
    IN /\ csvfile' = IF at \in {"csvWrite", "albumCsv"}
                     THEN writeField(csvfile, r, field[t]) ELSE csvfile
       /\ stdout' = IF at \in {"outWrite", "albumOut"}
                    THEN writeField(stdout, r, field[t]) ELSE stdout
       /\ field' = [field EXCEPT ![t] = IF last THEN 0 ELSE @ + 1]
       /\ pc' = [pc EXCEPT ![t] = IF last THEN next.pc ELSE at]
       /\ member' = [member EXCEPT ![t] = IF last THEN next.member ELSE @]
       /\ iter' = [iter EXCEPT ![t] = IF last THEN next.iter ELSE @]
       /\ lock' = IF last /\ ~more THEN 0 ELSE t

\* A thread enters the critical section of the File row for the CSV file
\* (line 503), of the File row for stdout (lines 520, 538) or of the Album
\* row (line 598), and writes the first field. The Album section may have
\* nothing to write.
EnterCritical(t) ==
    /\ pc[t] \in {"csvRow", "outRow", "albumRow"}
    /\ CriticalFree
    /\ IF pc[t] = "csvRow" THEN putField(t, "csvWrite")
       ELSE IF pc[t] = "outRow" THEN putField(t, "outWrite")
       ELSE IF HasCsv THEN putField(t, "albumCsv")
       ELSE IF HasOut THEN putField(t, "albumOut")
       ELSE /\ pc' = [pc EXCEPT ![t] = "release"]
            /\ UNCHANGED <<csvfile, stdout, field, member, iter, lock>>
    /\ UNCHANGED <<process, lg, dirOf, audioFile, folderStatus, useCount, held, nextIter,
                   cerr, calls>>

\* The thread inside a record's critical section writes the next field.
WriteField(t) ==
    /\ pc[t] \in {"csvWrite", "outWrite", "albumCsv", "albumOut"}
    /\ putField(t, pc[t])
    /\ UNCHANGED <<process, lg, dirOf, audioFile, folderStatus, useCount, held, nextIter,
                   cerr, calls>>

Next ==
    \/ \E t \in Threads : StartScan(t)
    \/ \E t \in Threads : FinishScan(t)
    \/ \E t \in Threads : CheckUseCount(t)
    \/ \E t \in Threads : CanProcess(t)
    \/ \E t \in Threads : ProcessResults(t)
    \/ \E t \in Threads : FolderResults(t)
    \/ \E t \in Threads : FileResults(t)
    \/ \E t \in Threads : EnterCritical(t)
    \/ \E t \in Threads : WriteField(t)
    \/ \E t \in Threads : Release(t)
    \/ \E t \in Threads : EndIteration(t)

Spec == Init /\ [][Next]_vars

\* scanLibrary has returned: every iteration was handed out and finished.
Finished == nextIter > NFiles /\ \A t \in Threads : pc[t] = "idle"

\* ------------------------------------------------- what the claims speak of
\* AudioFolder::audioFiles as a set; the folder object is still there.
members(u) == { f \in Files : dirOf[f] = u }
alive(u) == u \in DOMAIN folderStatus

\* The threads that run an iteration of folder u.
threadsOf(u) == { t \in Threads : iter[t] # 0 /\ dirOf[iter[t]] = u }

\* scanFile of f has reported its failure.
scanFailed(f) == <<"scan failed", f>> \in cerr

\* processResults of u was called, or a thread is about to call it.
aggregationStarted(u) ==
    \/ calls.processResults[u] >= 1
    \/ \E t \in threadsOf(u) : pc[t] = "processResults"

\* C1, as the specification states it: in album mode, once the loop has
\* ended, a folder whose members were all scanned with success has had
\* processResults and processFolderResults run exactly once.
C1_AggregatedExactlyOnce ==
    (lg.scanAlbum /\ Finished) =>
        \A u \in Folders :
            (\A f \in members(u) : ~scanFailed(f)) =>
                /\ calls.processResults[u] = 1
                /\ calls.processFolderResults[u] = 1

\* C2: processResults is started at most once for a folder, and only when
\* every member of the folder has the status SUCCESS.
C2_AtMostOnceAllSuccess ==
    /\ \A u \in 1..MaxFiles :
          /\ calls.processResults[u] <= 1
          /\ calls.processFolderResults[u] <= calls.processResults[u]
    /\ \A u \in DOMAIN folderStatus :
          aggregationStarted(u) =>
              \A f \in members(u) : audioFile[f].scanStatus = "SUCCESS"

\* Two threads ran the members of one folder and one of them aggregated it.
C2_Witness ==
    \E u \in DOMAIN folderStatus :
        /\ lg.numberOfThreads >= 2
        /\ Cardinality(members(u)) >= 2
        /\ calls.processResults[u] = 1
        /\ \E f \in members(u) : ~held[f]

\* C3, as the specification states it: in track mode a file whose scan
\* failed gets no File row in either sink and no tag writer is run on it.
C3_FailedFileSkipped ==
    ~lg.scanAlbum =>
        \A f \in DOMAIN audioFile :
            audioFile[f].scanStatus = "FAIL" =>
                /\ csvfile.rows[FileRec(f)] = 0
                /\ stdout.rows[FileRec(f)] = 0
                /\ calls.tagWrite[f] = 0

\* C4, as the specification states it: in album mode, when a member of a
\* folder failed and the last task of the folder is past its checks, about
\* to let go of the folder, the folder's status is FAIL and processResults
\* never ran for it.
C4_FailedMemberFailsFolder ==
    lg.scanAlbum =>
        \A u \in DOMAIN folderStatus :
            ( /\ \E f \in members(u) : audioFile[f].scanStatus = "FAIL"
              /\ useCount[u] = 1
              /\ \E t \in threadsOf(u) : pc[t] = "release" ) =>
                /\ folderStatus[u] = "FAIL"
                /\ calls.processResults[u] = 0

\* The state of folder u that its tasks work on: its status, its members'
\* fields and the rows of its records in the sinks.
unitView(u) ==
    << IF alive(u) THEN folderStatus[u] ELSE "destroyed",
       [f \in members(u) \cap DOMAIN audioFile |-> audioFile[f]],
       [f \in members(u) |-> <<csvfile.rows[FileRec(f)], stdout.rows[FileRec(f)]>>],
       csvfile.rows[AlbumRec(u)], stdout.rows[AlbumRec(u)] >>

\* Thread t takes a step of an iteration of folder u.
stepsFor(t, u) ==
    /\ <<pc[t], iter[t], member[t], field[t]>>' # <<pc[t], iter[t], member[t], field[t]>>
    /\ \/ iter[t] # 0 /\ dirOf[iter[t]] = u
       \/ iter'[t] # 0 /\ dirOf[iter'[t]] = u

\* C5: no file is scanned twice, and when the loop has ended every file was
\* scanned once, whatever failed; in album mode the status, the members and
\* the rows of a folder change only in steps of that folder's own tasks.
C5_ScanFailureIsLocal ==
    /\ [](/\ \A f \in 1..MaxFiles : calls.scanFile[f] <= 1
          /\ Finished => \A f \in Files : calls.scanFile[f] = 1)
    /\ [][lg.scanAlbum =>
             \A u \in Folders :
                 unitView(u)' # unitView(u) => \E t \in Threads : stepsFor(t, u)]_vars

\* The loop has ended; a scan of one folder failed and another folder has
\* its Album row.
C5_Witness ==
    /\ lg.scanAlbum /\ Finished
    /\ \E u1, u2 \in Folders :
          /\ u1 # u2
          /\ \E f \in members(u1) : scanFailed(f)
          /\ calls.processResults[u1] = 0
          /\ csvfile.rows[AlbumRec(u2)] = 1

\* Folder u has an Opus member and a member of another container or codec.
opusAmongOthers(u) ==
    \E f, g \in members(u) :
        /\ audioFile[f].avCodecId = "OPUS"
        /\ \/ audioFile[g].avCodecId # "OPUS"
           \/ audioFile[g].avFormat # audioFile[f].avFormat

\* C6: when processResults has run on a folder that mixes Opus members with
\* others, the folder's status is FAIL, the mixed-Opus diagnostic is on
\* stderr, the album fields of the members are as constructed, and no File
\* row of a member and no Album row of the folder is in a sink, then or later.
C6_MixedOpusFails ==
    /\ \A u \in DOMAIN folderStatus :
          (calls.processResults[u] >= 1 /\ opusAmongOthers(u)) =>
              /\ folderStatus[u] = "FAIL"
              /\ <<"mixing Opus and non-Opus", u>> \in cerr
              /\ \A f \in members(u) :
                    /\ audioFile[f].albumGain = NewAudioFile.albumGain
                    /\ audioFile[f].albumPeak = NewAudioFile.albumPeak
                    /\ audioFile[f].newAlbumPeak = NewAudioFile.newAlbumPeak
                    /\ audioFile[f].albumLoudness = NewAudioFile.albumLoudness
                    /\ audioFile[f].albumLoudnessRange = NewAudioFile.albumLoudnessRange
                    /\ audioFile[f].albumClips = NewAudioFile.albumClips
    /\ \A u \in Folders :
          <<"mixing Opus and non-Opus", u>> \in cerr =>
              /\ csvfile.rows[AlbumRec(u)] = 0 /\ stdout.rows[AlbumRec(u)] = 0
              /\ \A f \in members(u) :
                    /\ csvfile.rows[FileRec(f)] = 0 /\ stdout.rows[FileRec(f)] = 0
                    /\ calls.processFileResults[f] = 0

\* processFolderResults has returned for a folder of an Opus and a Vorbis
\* file, which processResults has failed.
C6_Witness ==
    \E u \in DOMAIN folderStatus :
        /\ opusAmongOthers(u)
        /\ calls.processResults[u] = 1
        /\ calls.processFolderResults[u] = 1
        /\ folderStatus[u] = "FAIL"

\* The pregain scanFile applied to file f.
pregainOf(f) ==
    IF audioFile[f].avCodecId = "OPUS" THEN lg.pregain - OpusOffset ELSE lg.pregain

albumRows(sink, on) ==
    \A u \in Folders :
        /\ sink.rows[AlbumRec(u)] <= 1
        /\ \A f \in members(u) : sink.rows[FileRec(f)] <= 1
        /\ sink.rows[AlbumRec(u)] = 1 =>
              /\ calls.processResults[u] = 1
              /\ alive(u) => folderStatus[u] = "SUCCESS"
              /\ \A f \in members(u) :
                    sink.rows[FileRec(f)] = 1 /\ FileRec(f) \notin sink.partial
        /\ ( /\ on /\ alive(u) /\ folderStatus[u] = "SUCCESS"
             /\ \E t \in threadsOf(u) : pc[t] = "release" ) =>
              sink.rows[AlbumRec(u)] = 1 /\ AlbumRec(u) \notin sink.partial

\* C8: in album mode, in the CSV file and in the tab list, a folder never
\* has more than one Album row nor a member more than one File row; the
\* Album row is only written for a folder aggregated with success, after
\* the complete File row of every member; and when processFolderResults
\* has returned for such a folder its Album row is there.
C8_OneAlbumRowAfterFileRows ==
    lg.scanAlbum => albumRows(csvfile, lg.csvOpen) /\ albumRows(stdout, lg.tabOutput)

\* The Album row of a folder of two members is in the CSV file.
C8_Witness ==
    /\ lg.scanAlbum /\ lg.csvOpen
    /\ \E u \in Folders :
          /\ Cardinality(members(u)) >= 2
          /\ csvfile.rows[AlbumRec(u)] = 1
          /\ AlbumRec(u) \notin csvfile.partial

\* Thread t is inside a critical section that writes a record.
writesRecord(t) == pc[t] \in {"csvWrite", "outWrite", "albumCsv", "albumOut"}

\* C9: no sink holds more than one unfinished record, at most one thread is
\* inside a record-writing critical section, and that thread holds the lock.
C9_RecordWritesSerialized ==
    /\ Cardinality(csvfile.partial \cup stdout.partial) <= 1
    /\ \A t1, t2 \in Threads : (writesRecord(t1) /\ writesRecord(t2)) => t1 = t2
    /\ \A t \in Threads : writesRecord(t) => lock = t
    /\ (csvfile.partial \cup stdout.partial) # {} => \E t \in Threads : writesRecord(t)

\* A thread is in the middle of a record while another waits to write one.
C9_Witness ==
    \E t1, t2 \in Threads :
        /\ t1 # t2
        /\ writesRecord(t1) /\ field[t1] >= 1
        /\ pc[t2] \in {"csvRow", "outRow", "albumRow"}

\* The AudioFile objects whose fields thread t writes, and reads, where it is.
writesOf(t) ==
    IF pc[t] = "scan" THEN {iter[t]}
    ELSE IF pc[t] = "processResults" THEN members(folderOf(t))
    ELSE IF pc[t] = "fileResults" THEN {target(t)}
    ELSE {}

readsOf(t) ==
    IF pc[t] \in {"canProcess", "processResults", "folderResults"} /\ lg.scanAlbum
    THEN members(folderOf(t))
    ELSE IF pc[t] \in {"fileResults", "csvRow", "outRow", "csvWrite", "outWrite",
                       "albumRow", "albumCsv", "albumOut"}
    THEN {target(t)}
    ELSE {}

\* The AudioFolder objects whose status thread t writes, and reads.
folderWritesOf(t) == IF pc[t] = "processResults" THEN {folderOf(t)} ELSE {}

folderReadsOf(t) ==
    IF pc[t] \in {"canProcess", "processResults", "folderResults"} THEN {folderOf(t)}
    ELSE {}

\* C10: no two threads are at positions where one writes an AudioFile or an
\* AudioFolder that the other reads or writes; a thread writes a file of
\* another iteration only after that iteration has let go of its pointers;
\* and the thread that reads the members' statuses does so when every other
\* iteration of the folder has let go and nobody else works on the folder.
C10_NoConcurrentAccess ==
    /\ \A t1, t2 \in Threads :
          t1 # t2 =>
              /\ writesOf(t1) \cap (writesOf(t2) \cup readsOf(t2)) = {}
              /\ folderWritesOf(t1) \cap (folderWritesOf(t2) \cup folderReadsOf(t2)) = {}
    /\ \A t \in Threads :
          \A f \in writesOf(t) \cup readsOf(t) :
              /\ f \in DOMAIN audioFile
              /\ f # iter[t] => ~held[f]
    /\ \A t \in Threads :
          folderReadsOf(t) # {} =>
              /\ threadsOf(folderOf(t)) = {t}
              /\ \A f \in members(folderOf(t)) \ {iter[t]} : ~held[f] /\ calls.scanFile[f] = 1

\* With two threads, one aggregates a folder of two members.
C10_Witness ==
    \E t \in Threads :
        /\ lg.numberOfThreads >= 2
        /\ pc[t] = "processResults"
        /\ Cardinality(members(folderOf(t))) >= 2

\* ------------------------------ AudioLibrary::removeReplayGainTags (mode d)
\* scanFile(pregain, loudness, verbose) on AudioFile a: `fail` is where it
\* failed, "none" if it did not. "open" is avformat_open_input, "stream" a
\* failure after the container is known and before the codec is (lines
\* 109-167). Without `loudness` the function returns at line 199.
scanFile(a, m, pregain, loudness, fail) ==
    IF fail = "open" THEN [a EXCEPT !.scanStatus = "FAIL"]
    ELSE IF fail = "stream" THEN [a EXCEPT !.scanStatus = "FAIL", !.avFormat = m.avFormat]
    ELSE IF ~loudness
    THEN [a EXCEPT !.avFormat = m.avFormat, !.avCodecId = m.avCodecId, !.scanStatus = "INIT"]
    ELSE scanFileResult(a, m, pregain, fail)

\* Where scanFile can fail when it is called without `loudness`.
IdentifyFailPoints == {"open", "stream"}

\* A removal that runs the writer of another codec on any Ogg file.
removeOutcomesAnyCodec(a) ==
    IF avContainerNameToId(a.avFormat) = -1 THEN NotWritten("Couldn't determine file format")
    ELSE Written

\* LoudGain::removeReplayGainTags(audio_file): whether a tag_clear function
\* was called and what went to stderr.
removeOutcomes(a) ==
    LET id == avContainerNameToId(a.avFormat)
    IN IF id = -1 THEN NotWritten("Couldn't determine file format")
       ELSE IF id = 2 /\ a.avCodecId \notin OggWriters THEN NotWritten("Codec not supported")
       ELSE Written

\* main with --tagmode d: the settings, and the batch of removeReplayGainTags.
RemoveInit ==
    /\ process = InLibrary
    /\ \E n \in 1..MaxThreads :
         lg = [ scanAlbum |-> FALSE, csvOpen |-> FALSE, tabOutput |-> FALSE,
                verbosity |-> 1, tagMode |-> "d", preventClipping |-> TRUE,
                maxTruePeakLevel |-> -1, pregain |-> 0, numberOfThreads |-> n ]
    /\ \E n \in 1..MaxFiles : dirOf = [f \in 1..n |-> 1]
    /\ audioFile = [f \in {} |-> NewAudioFile]
    /\ folderStatus = [u \in {} |-> "INIT"]
    /\ useCount = [u \in {} |-> 0]
    /\ held = [i \in 1..NFiles |-> FALSE]
    /\ nextIter = 1
    /\ pc = [t \in Threads |-> "idle"]
    /\ iter = [t \in Threads |-> 0]
    /\ member = [t \in Threads |-> 0]
    /\ field = [t \in Threads |-> 0]
    /\ lock = 0
    /\ csvfile = NewSink
    /\ stdout = NewSink
    /\ cerr = {}
    /\ calls = NewCalls

\* The files the removal meets: those of a scan, and an Ogg file whose
\* codec has no tag writer.
OggCelt == [avFormat |-> "ogg", avCodecId |-> "CELT", loudness |-> -20, range |-> 7, peak |-> -2]
IdentifyMedia(nthreads) == Media(nthreads) \cup {OggCelt}

\* audio_file.scanFile(0.0, false, ...) returns: true sends the thread to
\* lg.removeReplayGainTags, false ends the iteration.
FinishIdentify(t) ==
    /\ pc[t] = "scan"
    /\ \E m \in IdentifyMedia(lg.numberOfThreads), fail \in IdentifyFailPoints \cup {"none"} :
         /\ fail # "none" => CriticalFree
         /\ audioFile' = [audioFile EXCEPT ![iter[t]] = scanFile(@, m, 0, FALSE, fail)]
         /\ cerr' = IF fail = "none" THEN cerr ELSE cerr \cup {<<"scan failed", iter[t]>>}
         /\ pc' = [pc EXCEPT ![t] = IF fail = "none" THEN "removeTags" ELSE "end"]
    /\ UNCHANGED <<process, lg, dirOf, folderStatus, useCount, held, nextIter, iter,
                   member, field, lock, csvfile, stdout, calls>>

RemoveTags(t) ==
    /\ pc[t] = "removeTags"
    /\ \E o \in removeOutcomes(audioFile[iter[t]]) :
         /\ o.msg # "" => CriticalFree
         /\ cerr' = IF o.msg = "" THEN cerr ELSE cerr \cup {<<o.msg, iter[t]>>}
         /\ calls' = IF o.written THEN Bump(calls, "tagWrite", iter[t]) ELSE calls
    /\ pc' = [pc EXCEPT ![t] = "end"]
    /\ UNCHANGED <<process, lg, dirOf, audioFile, folderStatus, useCount, held, nextIter, iter,
                   member, field, lock, csvfile, stdout>>

RemoveNext ==
    \/ \E t \in Threads : StartScan(t)
    \/ \E t \in Threads : FinishIdentify(t)
    \/ \E t \in Threads : RemoveTags(t)
    \/ \E t \in Threads : EndIteration(t)

RemoveSpec == RemoveInit /\ [][RemoveNext]_vars

\* The rank of a status on the way INIT -> PROCESSING -> {FAIL, SUCCESS}.
statusRank(st) == IF st = "INIT" THEN 0 ELSE IF st = "PROCESSING" THEN 1 ELSE 2

\* C11, as the specification states it: in no step does the status of an
\* AudioFile move backwards, leave FAIL or leave SUCCESS.
C11_StatusMonotonic ==
    [][\A f \in DOMAIN audioFile \cap DOMAIN audioFile' :
           /\ statusRank(audioFile'[f].scanStatus) >= statusRank(audioFile[f].scanStatus)
           /\ audioFile[f].scanStatus = "FAIL" => audioFile'[f].scanStatus = "FAIL"
           /\ audioFile[f].scanStatus = "SUCCESS" => audioFile'[f].scanStatus = "SUCCESS"]_vars

\* C12, as the specification states it: when scanFile, called without
\* `loudness`, has returned true, the status is SUCCESS, the container and
\* the codec are set, and every other field is as constructed.
C12_IdentifyEndsMeasured ==
    \A t \in Threads :
        pc[t] = "removeTags" =>
            LET a == audioFile[iter[t]]
            IN /\ a.scanStatus = "SUCCESS"
               /\ a.avFormat # "" /\ a.avCodecId # "UNSET"
               /\ [a EXCEPT !.scanStatus = "INIT", !.avFormat = "", !.avCodecId = "UNSET"]
                     = NewAudioFile

\* ---------------------------------------- the gain arithmetic of one batch
\* What the measurement can find in an ogg file: Opus or Vorbis, a loudness
\* in LUFS and a true peak in dBTP.
Loudnesses == {-23, -16}
Peaks == {-6, 0}
Measurements ==
    { [avFormat |-> "ogg", avCodecId |-> c, loudness |-> l, range |-> 5, peak |-> p] :
      c \in {"OPUS", "VORBIS"}, l \in Loudnesses, p \in Peaks }

\* --pre-gain and --max-true-peak-level as main can leave them.
Pregains == {0, 3}
PeakLimits == {-1, -2}

\* main with one thread, no output and tag mode s. setMaxTruePeakLevel
\* switches clip prevention on, so a limit other than the default comes with
\* preventClipping. The files of the batch are in one folder.
GainInit ==
    /\ process = InLibrary
    /\ \E album, prevent \in BOOLEAN, g \in Pregains, limit \in PeakLimits :
         /\ limit # -1 => prevent
         /\ lg = [ scanAlbum |-> album, csvOpen |-> FALSE, tabOutput |-> FALSE,
                   verbosity |-> 1, tagMode |-> "s", preventClipping |-> prevent,
                   maxTruePeakLevel |-> limit, pregain |-> g, numberOfThreads |-> 1 ]
    /\ \E n \in 1..MaxFiles : dirOf = [f \in 1..n |-> 1]
    /\ audioFile = [f \in (IF lg.scanAlbum THEN Files ELSE {}) |-> NewAudioFile]
    /\ folderStatus = [u \in (IF lg.scanAlbum THEN Folders ELSE {}) |-> "INIT"]
    /\ useCount = [u \in (IF lg.scanAlbum THEN Folders ELSE {}) |-> count(u)]
    /\ held = [i \in 1..NFiles |-> lg.scanAlbum]
    /\ nextIter = 1
    /\ pc = [t \in Threads |-> "idle"]
    /\ iter = [t \in Threads |-> 0]
    /\ member = [t \in Threads |-> 0]
    /\ field = [t \in Threads |-> 0]
    /\ lock = 0
    /\ csvfile = NewSink
    /\ stdout = NewSink
    /\ cerr = {}
    /\ calls = NewCalls

\* scanFile(lg.pregain, true, ...) returns with a measurement.
MeasureScan(t) ==
    /\ pc[t] = "scan"
    /\ \E m \in Measurements :
         audioFile' = [audioFile EXCEPT ![iter[t]] = scanFile(@, m, lg.pregain, TRUE, "none")]
    /\ pc' = [pc EXCEPT ![t] = IF lg.scanAlbum THEN "useCount" ELSE "fileResults"]
    /\ UNCHANGED <<process, lg, dirOf, folderStatus, useCount, held, nextIter, iter,
                   member, field, lock, csvfile, stdout, cerr, calls>>

GainNext ==
    \/ \E t \in Threads : StartScan(t)
    \/ \E t \in Threads : MeasureScan(t)
    \/ \E t \in Threads : CheckUseCount(t)
    \/ \E t \in Threads : CanProcess(t)
    \/ \E t \in Threads : ProcessResults(t)
    \/ \E t \in Threads : FolderResults(t)
    \/ \E t \in Threads : FileResults(t)
    \/ \E t \in Threads : EnterCritical(t)
    \/ \E t \in Threads : Release(t)
    \/ \E t \in Threads : EndIteration(t)

GainSpec == GainInit /\ [][GainNext]_vars

\* The files processFileResults has returned for.
resolved == { f \in DOMAIN audioFile : calls.processFileResults[f] >= 1 }

\* What scanFile and processResults stored for file f, from the measured
\* loudness: -18 - L + G, G less 5 for Opus.
trackGainOf(f) ==
    -18 - audioFile[f].trackLoudness
        + (IF audioFile[f].avCodecId = "OPUS" THEN lg.pregain - 5 ELSE lg.pregain)

albumGainOf(f) ==
    -18 - audioFile[f].albumLoudness
        + (IF \E g \in members(dirOf[f]) : audioFile[g].avCodecId = "OPUS"
           THEN lg.pregain - 5 ELSE lg.pregain)

\* The peak after gain exceeds the peak limit, at track and at album scope.
trackClipsAtScan(f) == trackGainOf(f) + audioFile[f].trackPeak > lg.maxTruePeakLevel
albumClipsAtScan(f) ==
    lg.scanAlbum /\ albumGainOf(f) + audioFile[f].albumPeak > lg.maxTruePeakLevel

\* C13, as the specification states it: when processFileResults has returned
\* for a file whose track does not clip, trackClips and clipPrevention are
\* false and the track gain is -18 - L + G, in track and in album mode.
C13_NoClipLeavesFlagsFalse ==
    \A f \in resolved :
        ~trackClipsAtScan(f) =>
            /\ ~audioFile[f].trackClips
            /\ ~audioFile[f].clipPrevention
            /\ audioFile[f].trackGain = trackGainOf(f)

\* C14: with clip prevention enabled, when processFileResults has returned
\* for a file whose track clipped, the track gain is lower by the excess of
\* the peak after gain over the limit, the new peak after gain is the limit,
\* trackClips is false and clipPrevention is true; and so for the album
\* gain, the new album peak and albumClips when the album clipped.
C14_PreventionMeetsLimit ==
    lg.preventClipping =>
        \A f \in resolved :
            /\ trackClipsAtScan(f) =>
                  /\ audioFile[f].trackGain =
                         trackGainOf(f)
                             - (trackGainOf(f) + audioFile[f].trackPeak - lg.maxTruePeakLevel)
                  /\ audioFile[f].trackGain + audioFile[f].trackPeak = lg.maxTruePeakLevel
                  /\ audioFile[f].newTrackPeak = lg.maxTruePeakLevel
                  /\ ~audioFile[f].trackClips
                  /\ audioFile[f].clipPrevention
            /\ albumClipsAtScan(f) =>
                  /\ audioFile[f].albumGain =
                         albumGainOf(f)
                             - (albumGainOf(f) + audioFile[f].albumPeak - lg.maxTruePeakLevel)
                  /\ audioFile[f].albumGain + audioFile[f].albumPeak = lg.maxTruePeakLevel
                  /\ audioFile[f].newAlbumPeak = lg.maxTruePeakLevel
                  /\ ~audioFile[f].albumClips
                  /\ audioFile[f].clipPrevention

\* In album mode, a file whose track and whose album both clipped was
\* corrected.
C14_Witness ==
    /\ lg.preventClipping /\ lg.scanAlbum
    /\ \E f \in resolved :
          /\ trackClipsAtScan(f) /\ albumClipsAtScan(f)
          /\ audioFile[f].trackGain # trackGainOf(f)
          /\ audioFile[f].albumGain # albumGainOf(f)

\* C15: when processFileResults has returned for a file, with prevention
\* disabled the gains are those of the scan, trackClips and albumClips say
\* whether the scope clipped and clipPrevention is false; a scope that did
\* not clip keeps its gain; and clipPrevention is only true when prevention
\* is enabled and a scope clipped.
C15_PreventionOnlyWhenEnabledAndClipping ==
    \A f \in resolved :
        /\ ~lg.preventClipping =>
              /\ audioFile[f].trackGain = trackGainOf(f)
              /\ audioFile[f].trackClips = trackClipsAtScan(f)
              /\ lg.scanAlbum =>
                    /\ audioFile[f].albumGain = albumGainOf(f)
                    /\ audioFile[f].albumClips = albumClipsAtScan(f)
              /\ ~audioFile[f].clipPrevention
        /\ ~trackClipsAtScan(f) => audioFile[f].trackGain = trackGainOf(f)
        /\ (lg.scanAlbum /\ ~albumClipsAtScan(f)) => audioFile[f].albumGain = albumGainOf(f)
        /\ audioFile[f].clipPrevention =>
              lg.preventClipping /\ (trackClipsAtScan(f) \/ albumClipsAtScan(f))

\* Prevention is disabled and a track that clips keeps its gain.
C15_Witness ==
    /\ ~lg.preventClipping
    /\ \E f \in resolved :
          /\ trackClipsAtScan(f)
          /\ audioFile[f].trackClips
          /\ audioFile[f].trackGain = trackGainOf(f)

\* The files scanFile has measured and processFileResults has not yet seen.
measured ==
    { f \in DOMAIN audioFile :
        audioFile[f].scanStatus = "SUCCESS" /\ calls.processFileResults[f] = 0 }

\* C16: a file scanFile has measured has, if its codec is Opus, the track
\* gain -18 - L + (G - 5) and the loudness reference -18 + (G - 5), and for
\* any other codec -18 - L + G and -18 + G.
C16_OpusPregainOnce ==
    \A f \in measured :
        IF audioFile[f].avCodecId = "OPUS"
        THEN /\ audioFile[f].trackGain = -18 - audioFile[f].trackLoudness + (lg.pregain - 5)
             /\ audioFile[f].loudnessReference = -18 + (lg.pregain - 5)
        ELSE /\ audioFile[f].trackGain = -18 - audioFile[f].trackLoudness + lg.pregain
             /\ audioFile[f].loudnessReference = -18 + lg.pregain

\* An Opus file and a Vorbis file were measured with a pregain that is not 0.
C16_Witness ==
    /\ lg.pregain # 0
    /\ \E f, g \in measured :
          /\ audioFile[f].avCodecId = "OPUS"
          /\ audioFile[g].avCodecId = "VORBIS"

\* The folders processResults has aggregated with success.
aggregated ==
    { u \in DOMAIN folderStatus : lg.scanAlbum /\ folderStatus[u] = "SUCCESS" }

\* The members of u that processFileResults has not yet seen.
unresolved(u) == { f \in members(u) : f \in DOMAIN audioFile /\ f \notin resolved }

\* C17: after a successful aggregation the album gain of every member is
\* -18 - albumLoudness + G, G less 5 once when a member is Opus, however many
\* members are Opus.
C17_AlbumOpusPregainOnce ==
    \A u \in aggregated :
        LET opus == { f \in members(u) : audioFile[f].avCodecId = "OPUS" }
        IN \A f \in unresolved(u) :
              audioFile[f].albumGain =
                  -18 - audioFile[f].albumLoudness
                      + (IF opus # {} THEN lg.pregain - 5 ELSE lg.pregain)

\* A folder of two Opus members and a pregain that is not 0 was aggregated.
C17_Witness ==
    /\ lg.pregain # 0
    /\ \E u \in aggregated :
          /\ Cardinality(members(u)) >= 2
          /\ \A f \in members(u) : audioFile[f].avCodecId = "OPUS"
          /\ unresolved(u) = members(u)

\* C18: after a successful aggregation the album peak of every member is
\* the greatest track peak of the folder's members, whatever their count
\* and order.
C18_AlbumPeakIsMax ==
    \A u \in aggregated :
        \A f \in members(u) :
            /\ \A g \in members(u) : audioFile[f].albumPeak >= audioFile[g].trackPeak
            /\ \E g \in members(u) : audioFile[f].albumPeak = audioFile[g].trackPeak

\* A folder whose first member has the greatest peak, and one whose last
\* member has it, was aggregated.
C18_Witness ==
    \E u \in aggregated :
        /\ Cardinality(members(u)) >= 2
        /\ \E f, g \in members(u) :
              /\ f < g
              /\ audioFile[f].trackPeak > audioFile[g].trackPeak

\* The will-clip and clip-prevention fields of the File row of a file and of
\* the Album row written from the folder's last member.
fileRowWillClip(a) == a.trackClips \/ a.albumClips
fileRowClipPrevent(a) == a.clipPrevention
albumRowWillClip(a) == a.albumClips
albumRowClipPrevent(a) == a.clipPrevention

\* The last member of f's folder, whose fields the Album row shows.
isLastOfFolder(f) == f = audioFiles(dirOf[f])[count(dirOf[f])]

\* C19, as the specification states it: the will-clip and clip-prevention
\* fields of a File row are those of the track alone (it clips and is not
\* corrected; it clipped and was corrected), and those of the Album row are
\* those of the album alone.
C19_RowClipFieldsPerScope ==
    \A f \in resolved :
        /\ fileRowWillClip(audioFile[f]) = (trackClipsAtScan(f) /\ ~lg.preventClipping)
        /\ fileRowClipPrevent(audioFile[f]) = (trackClipsAtScan(f) /\ lg.preventClipping)
        /\ (lg.scanAlbum /\ isLastOfFolder(f)) =>
              /\ albumRowWillClip(audioFile[f]) = (albumClipsAtScan(f) /\ ~lg.preventClipping)
              /\ albumRowClipPrevent(audioFile[f]) = (albumClipsAtScan(f) /\ lg.preventClipping)

\* The records that exist before and after a step.
kept == DOMAIN audioFile \cap DOMAIN audioFile'

\* The step is processFileResults on f, for the first time.
resolvesNow(f) ==
    calls.processFileResults[f] = 0 /\ calls'.processFileResults[f] = 1

MaxHardware == 2
HardwareConcurrency == 0..MaxHardware

\* std::stod reads "nan": a double that compares false with everything.
NaN == 9999
Less(a, b) == a # NaN /\ b # NaN /\ a < b

\* std::clamp(v, lo, hi) = (v < lo) ? lo : (hi < v) ? hi : v
clamp(v, lo, hi) == IF Less(v, lo) THEN lo ELSE IF Less(hi, v) THEN hi ELSE v

\* The arguments the command line can hand to the setters.
TagModeArgs == {"d", "i", "e", "s", "x"}
PregainArgs == {-33, -32, 0, 32, 33, NaN}
PeakLevelArgs == {-33, -32, -1, 3, 4, NaN}
ID3v2Args == {2, 3, 4, 5}
ThreadArgs == -1..(MaxHardware + 1)

\* loudgain.hpp: the member initialisers of LoudGain.
NewLoudGain ==
    [ verbosity |-> 1, scanAlbum |-> FALSE, tabOutput |-> FALSE,
      preventClipping |-> TRUE, id3v2Version |-> 4, maxTruePeakLevel |-> -1,
      pregain |-> 0, tagMode |-> "s", numberOfThreads |-> 1, csvOpen |-> FALSE ]

\* A setter that stores whatever character it is given.
setTagModeUnchecked(l, tagmode) == [exit |-> FALSE, lg |-> [l EXCEPT !.tagMode = tagmode]]

\* setTagMode: exit(EXIT_FAILURE) for a character outside "dies".
setTagMode(l, tagmode) ==
    IF tagmode \notin {"d", "i", "e", "s"} THEN [exit |-> TRUE, lg |-> l]
    ELSE [exit |-> FALSE, lg |-> [l EXCEPT !.tagMode = tagmode]]

setPregain(l, gain) == [l EXCEPT !.pregain = clamp(gain, -32, 32)]

\* A setter of the level that leaves the switch alone.
setMaxTruePeakLevelOnly(l, mtpl) ==
    [l EXCEPT !.maxTruePeakLevel = clamp(mtpl, -32, 3)]

setMaxTruePeakLevel(l, mtpl) ==
    [l EXCEPT !.preventClipping = TRUE, !.maxTruePeakLevel = clamp(mtpl, -32, 3)]

setID3v2Version(l, version) == [l EXCEPT !.id3v2Version = clamp(version, 3, 4)]

\* A setter that stores the requested count as it is.
setNumberOfThreadsUncapped(l, n, maxt) == [l EXCEPT !.numberOfThreads = n]

setNumberOfThreads(l, n, maxt) ==
    [l EXCEPT !.numberOfThreads = IF n <= 0 THEN maxt - 1
                                  ELSE IF n < maxt THEN n ELSE maxt]

\* int nthreads = std::max<int>(1, lg.numberOfThreads);
nthreads(l) == IF l.numberOfThreads < 1 THEN 1 ELSE l.numberOfThreads

\* main calls the setters in this order; the last step calls the library.
mainOrder ==
    << "setVerbosity", "setAlbumScanMode", "setTagMode", "setPregain",
       "setPreventClipping", "setMaxTruePeakLevel", "setID3v2Version",
       "setTabOutput", "openCsvFile", "setNumberOfThreads", "library" >>

\* The call main has just made: none yet.
NoCall == [fn |-> "", given |-> FALSE, arg |-> 0]

ConfigInit ==
    /\ \E h \in HardwareConcurrency :
         process = [at |-> 1, maxt |-> h, exit |-> "", call |-> NoCall, nthreads |-> 0]
    /\ lg = NewLoudGain
    /\ dirOf = << >>
    /\ audioFile = [f \in {} |-> NewAudioFile]
    /\ folderStatus = [u \in {} |-> "INIT"]
    /\ useCount = [u \in {} |-> 0]
    /\ held = << >>
    /\ nextIter = 1
    /\ pc = << >>
    /\ iter = << >>
    /\ member = << >>
    /\ field = << >>
    /\ lock = 0
    /\ csvfile = NewSink
    /\ stdout = NewSink
    /\ cerr = {}
    /\ calls = NewCalls

\* main is about to make the call named fn.
AtCall(fn) ==
    /\ process.exit = ""
    /\ process.at <= Len(mainOrder)
    /\ mainOrder[process.at] = fn

\* main has made the call fn with arg (given: the option was on the command
\* line) and goes on to the next one.
Called(fn, given, arg) ==
    [process EXCEPT !.at = @ + 1, !.call = [fn |-> fn, given |-> given, arg |-> arg]]

Exited(fn, arg) ==
    [process EXCEPT !.exit = "EXIT_FAILURE", !.call = [fn |-> fn, given |-> TRUE, arg |-> arg]]

ConfigRest ==
    UNCHANGED <<dirOf, audioFile, folderStatus, useCount, held, nextIter, pc, iter,
                member, field, lock, stdout, calls>>

\* lg.setVerbosity(--verbosity); --quiet sets 1.
SetVerbosity ==
    /\ AtCall("setVerbosity")
    /\ \E level \in 0..2 :
         /\ lg' = [lg EXCEPT !.verbosity = level]
         /\ process' = Called("setVerbosity", TRUE, level)
    /\ UNCHANGED <<csvfile, cerr>> /\ ConfigRest

SetAlbumScanMode ==
    /\ AtCall("setAlbumScanMode")
    /\ \E enable \in BOOLEAN :
         /\ lg' = [lg EXCEPT !.scanAlbum = enable]
         /\ process' = Called("setAlbumScanMode", TRUE, enable)
    /\ UNCHANGED <<csvfile, cerr>> /\ ConfigRest

\* lines 250-253: the first character of --tagmode, or 's'.
SetTagMode ==
    /\ AtCall("setTagMode")
    /\ \E c \in TagModeArgs :
         LET r == setTagMode(lg, c)
         IN /\ lg' = r.lg
            /\ process' = IF r.exit THEN Exited("setTagMode", c)
                          ELSE Called("setTagMode", TRUE, c)
            /\ cerr' = IF r.exit THEN cerr \cup {<<"Invalid tag mode", 0>>} ELSE cerr
    /\ UNCHANGED csvfile /\ ConfigRest

SetPregain ==
    /\ AtCall("setPregain")
    /\ \E gain \in PregainArgs :
         /\ lg' = setPregain(lg, gain)
         /\ process' = Called("setPregain", TRUE, gain)
    /\ UNCHANGED <<csvfile, cerr>> /\ ConfigRest

SetPreventClipping ==
    /\ AtCall("setPreventClipping")
    /\ \E enable \in BOOLEAN :
         /\ lg' = [lg EXCEPT !.preventClipping = enable]
         /\ process' = Called("setPreventClipping", TRUE, enable)
    /\ UNCHANGED <<csvfile, cerr>> /\ ConfigRest

\* lines 258-259: called only when --max-true-peak-level is present.
SetMaxTruePeakLevel ==
    /\ AtCall("setMaxTruePeakLevel")
    /\ \/ /\ lg' = lg
          /\ process' = Called("setMaxTruePeakLevel", FALSE, 0)
       \/ \E mtpl \in PeakLevelArgs :
            /\ lg' = setMaxTruePeakLevel(lg, mtpl)
            /\ process' = Called("setMaxTruePeakLevel", TRUE, mtpl)
    /\ UNCHANGED <<csvfile, cerr>> /\ ConfigRest

SetID3v2Version ==
    /\ AtCall("setID3v2Version")
    /\ \E version \in ID3v2Args :
         /\ lg' = setID3v2Version(lg, version)
         /\ process' = Called("setID3v2Version", TRUE, version)
    /\ UNCHANGED <<csvfile, cerr>> /\ ConfigRest

SetTabOutput ==
    /\ AtCall("setTabOutput")
    /\ \E enable \in BOOLEAN :
         /\ lg' = [lg EXCEPT !.tabOutput = enable]
         /\ process' = Called("setTabOutput", TRUE, enable)
    /\ UNCHANGED <<csvfile, cerr>> /\ ConfigRest

\* lines 267-268 and openCsvFile: called only with --output-csv; the file
\* opens and gets its header line, or the process exits.
OpenCsvFile ==
    /\ AtCall("openCsvFile")
    /\ \/ /\ process' = Called("openCsvFile", FALSE, 0)
          /\ UNCHANGED <<lg, csvfile, cerr>>
       \/ /\ process' = Called("openCsvFile", TRUE, 0)
          /\ lg' = [lg EXCEPT !.csvOpen = TRUE]
          /\ csvfile' = [rows |-> csvfile.rows, partial |-> csvfile.partial, header |-> 1]
          /\ cerr' = cerr
       \/ /\ process' = Exited("openCsvFile", 0)
          /\ cerr' = cerr \cup {<<"Failed to open file", 0>>}
          /\ UNCHANGED <<lg, csvfile>>
    /\ ConfigRest

SetNumberOfThreads ==
    /\ AtCall("setNumberOfThreads")
    /\ \E n \in ThreadArgs :
         /\ lg' = setNumberOfThreads(lg, n, process.maxt)
         /\ process' = Called("setNumberOfThreads", TRUE, n)
    /\ UNCHANGED <<csvfile, cerr>> /\ ConfigRest

\* lines 280-291: removeReplayGainTags or scanLibrary starts its loop with
\* num_threads(nthreads).
EnterLibrary ==
    /\ AtCall("library")
    /\ process' = [process EXCEPT !.at = @ + 1, !.nthreads = nthreads(lg)]
    /\ UNCHANGED <<lg, csvfile, cerr>> /\ ConfigRest

ConfigNext ==
    \/ SetVerbosity
    \/ SetAlbumScanMode
    \/ SetTagMode
    \/ SetPregain
    \/ SetPreventClipping
    \/ SetMaxTruePeakLevel
    \/ SetID3v2Version
    \/ SetTabOutput
    \/ OpenCsvFile
    \/ SetNumberOfThreads
    \/ EnterLibrary

ConfigSpec == ConfigInit /\ [][ConfigNext]_vars

\* main has called the library: the thread count its loop asks for is known.
inLibrary == process.at = Len(mainOrder) + 1 /\ process.call.fn = "setNumberOfThreads"

\* C21, as the specification states it: for a requested count n and a
\* hardware concurrency H the loop uses max(1, H - 1) threads when n <= 0 and
\* min(n, H) when n > 0, and always at least 1 and at most H.
C21_ThreadsFlooredAndCapped ==
    inLibrary =>
        LET n == process.call.arg
            H == process.maxt
            used == process.nthreads
        IN /\ n <= 0 => used = MaxOf(1, H - 1)
           /\ n > 0 => used = MinOf(n, H)
           /\ 1 <= used /\ used <= H

\* C21: the loop uses max(1, H - 1) threads when n <= 0 and max(1, min(n, H))
\* when n > 0; that is at least 1 in all cases and, when the platform reports
\* a concurrency H >= 1, min(n, H) for n > 0 and at most H.
C21_ThreadsFlooredAndCappedWhenKnown ==
    inLibrary =>
        LET n == process.call.arg
            H == process.maxt
            used == process.nthreads
        IN /\ n <= 0 => used = MaxOf(1, H - 1)
           /\ n > 0 => used = MaxOf(1, MinOf(n, H))
           /\ 1 <= used
           /\ H >= 1 => /\ used <= H
                        /\ n > 0 => used = MinOf(n, H)

\* More threads were asked for than the platform has, and the platform's
\* count was used.
C21_Witness ==
    /\ inLibrary
    /\ process.maxt >= 1
    /\ process.call.arg > process.maxt
    /\ process.nthreads = process.maxt

\* C22, as the specification states it: whatever setters main has called,
\* pregain lies in [-32, 32], maxTruePeakLevel in [-32, 3] and id3v2Version
\* is 3 or 4; a setter stores an argument below the range as the lower
\* bound, one above it as the upper bound and one inside it unchanged.
C22_SettingsInRange ==
    /\ lg.pregain \in -32..32
    /\ lg.maxTruePeakLevel \in -32..3
    /\ lg.id3v2Version \in {3, 4}
    /\ LET arg == process.call.arg
           stored(lo, hi) == IF arg < lo THEN lo ELSE IF arg > hi THEN hi ELSE arg
       IN /\ process.call.fn = "setPregain" => lg.pregain = stored(-32, 32)
          /\ (process.call.fn = "setMaxTruePeakLevel" /\ process.call.given) =>
                lg.maxTruePeakLevel = stored(-32, 3)
          /\ process.call.fn = "setID3v2Version" => lg.id3v2Version = stored(3, 4)

\* C23: a tag-mode character outside d, i, e, s ends the process with
\* EXIT_FAILURE in the setTagMode call: the library is never called and
\* nothing has been written to the CSV file, to stdout or to a tag.  A valid
\* character is stored in tagMode and the call changes nothing else.
C23_InvalidTagModeExitsFirst ==
    [][/\ process.exit # "" => UNCHANGED vars
       /\ AtCall("setTagMode") =>
          \E c \in TagModeArgs :
              /\ process'.call = [fn |-> "setTagMode", given |-> TRUE, arg |-> c]
              /\ IF c \in {"d", "i", "e", "s"}
                 THEN /\ lg' = [lg EXCEPT !.tagMode = c]
                      /\ process'.exit = ""
                      /\ UNCHANGED <<csvfile, stdout, cerr, calls, audioFile>>
                 ELSE /\ process'.exit = "EXIT_FAILURE"
                      /\ process'.at < Len(mainOrder)
                      /\ lg' = lg
                      /\ csvfile' = NewSink /\ stdout' = NewSink
                      /\ calls' = NewCalls /\ audioFile' = << >>]_vars

\* The process has exited in setTagMode, given the character x.
C23_Witness ==
    /\ process.exit = "EXIT_FAILURE"
    /\ process.call.fn = "setTagMode"
    /\ process.call.arg = "x"
    /\ csvfile = NewSink

\* ------------------------------------- AudioLibrary::getSupportedAudioFiles
MaxPaths == 2

\* A path is the sequence of its components.  The files and the directory
\* of the file system, by the path that names them without "." components.
RegularFiles == { <<"c.flac">>, <<"d", "a.flac">>, <<"d", "b.txt">>, <<"d", "e.flac">> }
Directories == { <<"d">> }

\* What the command line can name.
PathArgs ==
    { <<"c.flac">>, <<".", "c.flac">>, <<"d">>, <<".", "d">>,
      <<"d", "a.flac">>, <<".", "d", "a.flac">>, <<"d", "b.txt">> }

\* The file a path leads to: "." components name the directory they are in.
canonical(path) == SelectSeq(path, LAMBDA c : c # ".")

\* fs::is_regular_file(p) and an extension of userExtensions
isSupportedAudioFile(path) ==
    /\ canonical(path) \in RegularFiles
    /\ path[Len(path)] \in {"a.flac", "c.flac", "e.flac"}

isOnlyDirectories(paths) ==
    \A i \in 1..Len(paths) : canonical(paths[i]) \in Directories

\* fs::directory_iterator: the entries of a directory, each named by the
\* directory's path as given and its own name.
directory_iterator(path) ==
    { Append(path, f[Len(f)]) :
        f \in { g \in RegularFiles : /\ Len(g) = Len(canonical(path)) + 1
                                     /\ SubSeq(g, 1, Len(g) - 1) = canonical(path) } }

\* The std::set of the path strings of the accepted files.
getSupportedAudioFiles(paths) ==
    IF isOnlyDirectories(paths)
    THEN UNION { { e \in directory_iterator(paths[i]) : isSupportedAudioFile(e) } :
                 i \in 1..Len(paths) }
    ELSE { paths[i] : i \in { j \in 1..Len(paths) : isSupportedAudioFile(paths[j]) } }

\* No options, no batch, nothing written.
NoScan ==
    /\ lg = NewLoudGain
    /\ dirOf = << >>
    /\ audioFile = [f \in {} |-> NewAudioFile]
    /\ folderStatus = [u \in {} |-> "INIT"]
    /\ useCount = [u \in {} |-> 0]
    /\ held = << >>
    /\ nextIter = 1
    /\ pc = << >>
    /\ iter = << >>
    /\ member = << >>
    /\ field = << >>
    /\ lock = 0
    /\ csvfile = NewSink
    /\ stdout = NewSink
    /\ cerr = {}
    /\ calls = NewCalls

\* library.setLibraryPaths(files), main.cpp:274
LibraryInit ==
    /\ \E n \in 1..MaxPaths : \E paths \in [1..n -> PathArgs] :
         process = [at |-> "setLibraryPaths", libraryPaths |-> paths, files |-> {}]
    /\ NoScan

\* std::set<std::string> fset = getSupportedAudioFiles();  one record and
\* one iteration of the loop for each element.
ListFiles ==
    /\ process.at = "setLibraryPaths"
    /\ process' = [process EXCEPT !.at = "scanLibrary",
                                  !.files = getSupportedAudioFiles(process.libraryPaths)]
    /\ UNCHANGED <<lg, dirOf, audioFile, folderStatus, useCount, held, nextIter, pc,
                   iter, member, field, lock, csvfile, stdout, cerr, calls>>

LibrarySpec == LibraryInit /\ [][ListFiles]_vars

\* C24, as the specification states it: no two records of the batch are for
\* the same file.
C24_OneRecordPerFile ==
    process.at = "scanLibrary" =>
        \A x, y \in process.files : canonical(x) = canonical(y) => x = y

\* ------------------------------------------------ failures and what is shown
\* processFileResults has reported that it could not write the tags of f.
tagFailed(f) ==
    \E msg \in {"Couldn't write to", "Codec not supported", "Couldn't determine file format"} :
        <<msg, f>> \in cerr

\* The File row of f and the Album row of u are in every sink that is on.
fileRowShown(f) ==
    /\ lg.csvOpen => csvfile.rows[FileRec(f)] = 1
    /\ (lg.tabOutput \/ lg.verbosity >= 2) => stdout.rows[FileRec(f)] = 1
albumRowShown(u) ==
    /\ lg.csvOpen => csvfile.rows[AlbumRec(u)] = 1
    /\ (lg.tabOutput \/ lg.verbosity >= 2) => stdout.rows[AlbumRec(u)] = 1

\* C25: a tag failure is reported by processFileResults of that file, and
\* when the loop has ended the file's row was written, every member of its
\* folder was resolved and has its row, the folder has its Album row, every
\* file of the batch was scanned and, in track mode, resolved and shown.
C25_TagFailureIsNotFatal ==
    /\ \A f \in Files : tagFailed(f) => calls.processFileResults[f] = 1
    /\ Finished =>
          \A f \in Files :
              tagFailed(f) =>
                  /\ fileRowShown(f)
                  /\ lg.scanAlbum =>
                        /\ \A g \in members(dirOf[f]) :
                              calls.processFileResults[g] = 1 /\ fileRowShown(g)
                        /\ albumRowShown(dirOf[f])
                  /\ \A g \in Files : calls.scanFile[g] = 1
                  /\ ~lg.scanAlbum =>
                        \A g \in Files : calls.processFileResults[g] = 1 /\ fileRowShown(g)

\* The loop has ended; the tags of the first of two members of a folder
\* could not be written, and the folder has its Album row.
C25_Witness ==
    /\ Finished /\ lg.scanAlbum
    /\ \E f, g \in Files :
          /\ f < g /\ dirOf[f] = dirOf[g]
          /\ tagFailed(f)
          /\ stdout.rows[FileRec(g)] = 1
          /\ stdout.rows[AlbumRec(dirOf[f])] = 1

\* C26, as the specification states it: a file whose scan failed has a
\* diagnostic on stderr and no File row in either sink; when the loop has
\* ended, a folder with a member whose scan failed, or whose aggregation
\* failed, has a diagnostic on stderr that names the folder and no Album row.
C26_FailuresSkippedAndLogged ==
    /\ \A f \in Files :
          (calls.scanFile[f] = 1 /\ f \in DOMAIN audioFile /\ audioFile[f].scanStatus = "FAIL") =>
              /\ scanFailed(f)
              /\ csvfile.rows[FileRec(f)] = 0 /\ stdout.rows[FileRec(f)] = 0
    /\ (lg.scanAlbum /\ Finished) =>
          \A u \in Folders :
              (\E f \in members(u) : scanFailed(f)) =>
                  /\ csvfile.rows[AlbumRec(u)] = 0 /\ stdout.rows[AlbumRec(u)] = 0
                  /\ \E msg \in {"Album scan failed", "Album loudness fail",
                                 "Album loudness range fail", "mixing Opus and non-Opus"} :
                        <<msg, u>> \in cerr

\* The aggregation of folder u has reported a failure.
aggregationFailed(u) ==
    \E msg \in {"Album scan failed", "Album loudness fail",
                "Album loudness range fail", "mixing Opus and non-Opus"} :
        <<msg, u>> \in cerr

\* C27, as the specification states it: the rows a batch ends with are those
\* its measurements decide, whatever the thread count and the order of the
\* tasks: in album mode a folder whose members were all measured and whose
\* aggregation did not fail has the File row of every member and its Album
\* row, as it has when one thread runs the batch.
C27_RowsDecidedByMeasurements ==
    (lg.scanAlbum /\ Finished) =>
        \A u \in Folders :
            ( /\ \A f \in members(u) : calls.scanFile[f] = 1 /\ ~scanFailed(f)
              /\ ~aggregationFailed(u) ) =>
                /\ albumRowShown(u)
                /\ \A f \in members(u) : fileRowShown(f)

\* The album fields of an AudioFile are those of its constructor.
albumFieldsUntouched(a) ==
    /\ a.albumGain = NewAudioFile.albumGain
    /\ a.albumPeak = NewAudioFile.albumPeak
    /\ a.albumClips = NewAudioFile.albumClips
    /\ a.newAlbumPeak = NewAudioFile.newAlbumPeak
    /\ a.albumLoudness = NewAudioFile.albumLoudness
    /\ a.albumLoudnessRange = NewAudioFile.albumLoudnessRange

\* C28: in track mode no Album row is in a sink, no folder is aggregated and
\* the album fields of every AudioFile are those of its constructor; an
\* Album row is in a sink only in album mode.
C28_AlbumScopeOnlyInAlbumMode ==
    /\ ~lg.scanAlbum =>
          /\ \A f \in DOMAIN audioFile : albumFieldsUntouched(audioFile[f])
          /\ \A u \in 1..MaxFiles :
                /\ csvfile.rows[AlbumRec(u)] = 0 /\ stdout.rows[AlbumRec(u)] = 0
                /\ calls.processResults[u] = 0 /\ calls.processFolderResults[u] = 0
    /\ (\E u \in 1..MaxFiles : csvfile.rows[AlbumRec(u)] > 0 \/ stdout.rows[AlbumRec(u)] > 0)
          => lg.scanAlbum

\* In track mode a file was measured and resolved, and its File row written.
C28_Witness ==
    /\ ~lg.scanAlbum
    /\ \E f \in DOMAIN audioFile :
          /\ audioFile[f].scanStatus = "SUCCESS"
          /\ calls.processFileResults[f] = 1
          /\ audioFile[f].newTrackPeak # NewAudioFile.newTrackPeak
          /\ csvfile.rows[FileRec(f)] = 1

\* ------------------------------------------- main: the call of the library
\* if (lg.tagMode == 'd') library.removeReplayGainTags(lg);
\* else library.scanLibrary(lg);
DispatchInit == Init \/ RemoveInit
DispatchNext ==
    \/ lg.tagMode = "d" /\ RemoveNext
    \/ lg.tagMode # "d" /\ Next
DispatchSpec == DispatchInit /\ [][DispatchNext]_vars

\* removeReplayGainTags found no tag_clear function for f.
noWriter(f) ==
    <<"Codec not supported", f>> \in cerr \/ <<"Couldn't determine file format", f>> \in cerr

\* Nothing was measured, resolved or shown.
nothingMeasured ==
    /\ \A f \in DOMAIN audioFile :
          [audioFile[f] EXCEPT !.scanStatus = "INIT", !.avFormat = "", !.avCodecId = "UNSET"]
              = NewAudioFile
    /\ \A x \in 1..MaxFiles :
          /\ calls.processFileResults[x] = 0
          /\ calls.processResults[x] = 0 /\ calls.processFolderResults[x] = 0
          /\ csvfile.rows[FileRec(x)] = 0 /\ stdout.rows[FileRec(x)] = 0
          /\ csvfile.rows[AlbumRec(x)] = 0 /\ stdout.rows[AlbumRec(x)] = 0

\* C29, as the specification states it: in tag mode d, when the loop has
\* ended, the tag-clearing writer has run once for every file whose
\* identification succeeded.
C29_ClearedOncePerIdentifiedFile ==
    (lg.tagMode = "d" /\ Finished) =>
        \A f \in Files : ~scanFailed(f) => calls.tagWrite[f] = 1

\* The container of a has a tag_clear function, and so has the codec of an
\* Ogg file.
hasWriter(a) ==
    /\ a.avFormat \in {"mp3", "flac", "ogg", "mov,mp4,m4a,3gp,3g2,mj2", "asf",
                       "wav", "wv", "aiff", "ape"}
    /\ a.avFormat = "ogg" => a.avCodecId \in {"OPUS", "VORBIS", "FLAC", "SPEEX"}

\* C29: in tag mode d nothing is measured, resolved or shown; the
\* tag-clearing writer runs at most once for a file and never for a file
\* whose identification failed; when the iteration of a file ends, the
\* writer has run once if the file was identified and its container and
\* codec have a writer, and not at all otherwise.  In tag mode s no tag
\* writer runs; in tag modes i and e a tag writer runs at most once for a
\* file, in processFileResults of that file.
C29_TagWritersPerMode ==
    /\ lg.tagMode = "d" =>
          /\ nothingMeasured
          /\ \A f \in Files :
                /\ calls.tagWrite[f] <= 1
                /\ scanFailed(f) => calls.tagWrite[f] = 0
          /\ \A t \in Threads :
                pc[t] = "end" =>
                    calls.tagWrite[iter[t]] =
                        IF ~scanFailed(iter[t]) /\ hasWriter(audioFile[iter[t]]) THEN 1 ELSE 0
    /\ lg.tagMode = "s" => \A f \in Files : calls.tagWrite[f] = 0
    /\ lg.tagMode \in {"i", "e"} =>
          \A f \in Files :
              /\ calls.tagWrite[f] <= 1
              /\ calls.tagWrite[f] = 1 => calls.processFileResults[f] = 1

\* Tag mode d, the loop has ended: the tags of one file were cleared, another
\* file was identified and has a codec without a writer, and nothing was
\* written to it.
C29_Witness ==
    /\ lg.tagMode = "d" /\ Finished
    /\ \E f, g \in Files :
          /\ calls.tagWrite[f] = 1
          /\ ~scanFailed(g) /\ noWriter(g) /\ calls.tagWrite[g] = 0

\* ----------------------------------------------------------- gain_to_q78num
\* A gain is held as the whole number of 1/512 dB it is, so that gain * 256
\* is a whole number of halves.  The gains up to MaxGain dB either way, and
\* those at the ends of the Q7.8 range.
MaxGain == 4
Gains == (-(MaxGain * 512))..(MaxGain * 512) \cup {-65536, -65535, 65533, 65534}

\* A rounding that takes every half upwards.
roundHalfUp(halves) == (halves + 1) \div 2

\* round() of math.h on a number of halves: to the nearest whole number,
\* a half away from zero.
round(halves) ==
    IF halves >= 0 THEN (halves + 1) \div 2 ELSE -((1 - halves) \div 2)

\* return int(round(gain * 256.0));
gain_to_q78num(gain) == round(gain)

Q78Init ==
    /\ \E g \in Gains : process = [at |-> "trackGain", gain |-> g, q78num |-> 0]
    /\ NoScan

\* loudgain.cpp:546 prints gain_to_q78num(audio_file.trackGain).
PrintQ78 ==
    /\ process.at = "trackGain"
    /\ process' = [process EXCEPT !.at = "printed", !.q78num = gain_to_q78num(process.gain)]
    /\ UNCHANGED <<lg, dirOf, audioFile, folderStatus, useCount, held, nextIter, pc,
                   iter, member, field, lock, csvfile, stdout, cerr, calls>>

Q78Spec == Q78Init /\ [][PrintQ78]_vars

\* C30: gain_to_q78num(gain) is the whole number nearest to gain * 256, the
\* one further from zero when two are equally near: -960 for -3.75 dB and 0
\* for 0 dB.
C30_Q78IsRoundedGain ==
    process.at = "printed" =>
        LET halves == process.gain
            q == process.q78num
            Abs(x) == IF x < 0 THEN -x ELSE x
        IN /\ Abs(2 * q - halves) <= 1
           /\ Abs(2 * q - halves) = 1 => Abs(2 * q) > Abs(halves)
           /\ halves = -1920 => q = -960
           /\ halves = 0 => q = 0

\* A negative gain half way between two Q7.8 numbers was converted to the
\* one further from zero.
C30_Witness ==
    /\ process.at = "printed"
    /\ process.gain = -1921
    /\ process.q78num = -961

\* ------------------------------------------------ AudioFolder::scanFolder
\* One folder of up to MaxFiles members, scanned by scanFolder(pregain,
\* threads, quiet); lg carries its arguments, `process` its locals: the
\* flag `ok`, the iterations of the loop not yet handed out, what it returned.
FolderInit ==
    /\ \E n \in 1..MaxFiles, threads \in 0..MaxThreads :
         /\ dirOf = [f \in 1..n |-> 1]
         /\ lg = [ scanAlbum |-> TRUE, csvOpen |-> FALSE, tabOutput |-> FALSE,
                   verbosity |-> 0, tagMode |-> "s", preventClipping |-> TRUE,
                   maxTruePeakLevel |-> -1, pregain |-> 0,
                   numberOfThreads |-> MaxOf(1, threads) ]
         /\ process = [at |-> "scanFolder", ok |-> TRUE, todo |-> 1..n, result |-> "none"]
    /\ audioFile = [f \in Files |-> NewAudioFile]
    /\ folderStatus = [u \in {1} |-> "INIT"]
    /\ useCount = [u \in {1} |-> 1]
    /\ held = [i \in Files |-> FALSE]
    /\ nextIter = 1
    /\ pc = [t \in Threads |-> "idle"]
    /\ iter = [t \in Threads |-> 0]
    /\ member = [t \in Threads |-> 0]
    /\ field = [t \in Threads |-> 0]
    /\ lock = 0
    /\ csvfile = NewSink
    /\ stdout = NewSink
    /\ cerr = {}
    /\ calls = NewCalls

\* scanStatus = SCANSTATUS::PROCESSING; volatile bool ok = true;
EnterScanFolder ==
    /\ process.at = "scanFolder"
    /\ process' = [process EXCEPT !.at = "for"]
    /\ folderStatus' = [folderStatus EXCEPT ![1] = "PROCESSING"]
    /\ UNCHANGED <<lg, dirOf, audioFile, useCount, held, nextIter, pc, iter, member,
                   field, lock, csvfile, stdout, cerr, calls>>

\* A loop body that scans whatever `ok` says.
RunIterationAlways(t) ==
    /\ process.at = "for"
    /\ pc[t] = "idle"
    /\ \E i \in process.todo :
         /\ process' = [process EXCEPT !.todo = @ \ {i}]
         /\ iter' = [iter EXCEPT ![t] = i]
         /\ audioFile' = [audioFile EXCEPT ![i].scanStatus = "PROCESSING"]
         /\ calls' = Bump(calls, "scanFile", i)
         /\ pc' = [pc EXCEPT ![t] = "scan"]
    /\ UNCHANGED <<lg, dirOf, folderStatus, useCount, held, nextIter, member, field,
                   lock, csvfile, stdout, cerr>>

\* A thread of the team takes one of its iterations (the schedule is the
\* implementation's): if (ok) it enters scanFile, else the iteration is over.
RunIteration(t) ==
    /\ process.at = "for"
    /\ pc[t] = "idle"
    /\ \E i \in process.todo :
         /\ process' = [process EXCEPT !.todo = @ \ {i}]
         /\ IF process.ok
            THEN /\ iter' = [iter EXCEPT ![t] = i]
                 /\ audioFile' = [audioFile EXCEPT ![i].scanStatus = "PROCESSING"]
                 /\ calls' = Bump(calls, "scanFile", i)
                 /\ pc' = [pc EXCEPT ![t] = "scan"]
            ELSE UNCHANGED <<iter, audioFile, calls, pc>>
    /\ UNCHANGED <<lg, dirOf, folderStatus, useCount, held, nextIter, member, field,
                   lock, csvfile, stdout, cerr>>

\* scanFile returns to the loop body.
ReturnToFolder(t) ==
    /\ process.at = "for"
    /\ pc[t] = "scan"
    /\ \E m \in Media(lg.numberOfThreads), fail \in FailPoints \cup {"none"} :
         /\ audioFile' = [audioFile EXCEPT ![iter[t]] =
                             scanFileResult(@, m, lg.pregain, fail)]
         /\ cerr' = IF fail = "none" THEN cerr ELSE cerr \cup {<<"scan failed", iter[t]>>}
         /\ pc' = [pc EXCEPT ![t] = IF fail = "none" THEN "idle" ELSE "clearOk"]
         /\ iter' = [iter EXCEPT ![t] = IF fail = "none" THEN 0 ELSE @]
    /\ UNCHANGED <<process, lg, dirOf, folderStatus, useCount, held, nextIter,
                   member, field, lock, csvfile, stdout, calls>>

\* ok = false;
ClearOk(t) ==
    /\ pc[t] = "clearOk"
    /\ process' = [process EXCEPT !.ok = FALSE]
    /\ pc' = [pc EXCEPT ![t] = "idle"]
    /\ iter' = [iter EXCEPT ![t] = 0]
    /\ UNCHANGED <<lg, dirOf, audioFile, folderStatus, useCount, held, nextIter,
                   member, field, lock, csvfile, stdout, cerr, calls>>

\* The team has joined: if (!ok) the folder fails, else processResults.
LeaveScanFolder ==
    /\ process.at = "for"
    /\ process.todo = {}
    /\ \A t \in Threads : pc[t] = "idle"
    /\ IF ~process.ok
       THEN /\ folderStatus' = [folderStatus EXCEPT ![1] = "FAIL"]
            /\ process' = [process EXCEPT !.at = "returned", !.result = "false"]
            /\ UNCHANGED <<audioFile, cerr, calls>>
       ELSE \E ans \in Ebur128Answers(1) :
              LET r == processResults(1, lg.pregain, ans)
              IN /\ folderStatus' = [folderStatus EXCEPT ![1] = r.status]
                 /\ audioFile' = r.files
                 /\ cerr' = IF r.msg = "" THEN cerr ELSE cerr \cup {<<r.msg, 1>>}
                 /\ calls' = Bump(calls, "processResults", 1)
                 /\ process' = [process EXCEPT
                                  !.at = "returned",
                                  !.result = IF r.status = "SUCCESS" THEN "true" ELSE "false"]
    /\ UNCHANGED <<lg, dirOf, useCount, held, nextIter, pc, iter, member, field,
                   lock, csvfile, stdout>>

FolderNext ==
    \/ EnterScanFolder
    \/ \E t \in Threads : RunIteration(t)
    \/ \E t \in Threads : ReturnToFolder(t)
    \/ \E t \in Threads : ClearOk(t)
    \/ LeaveScanFolder

FolderSpec == FolderInit /\ [][FolderNext]_vars

\* C31 as stated: once a member's scan has failed, no scan is started.
C31_NoScanStartsAfterFailure ==
    [][(\E f \in Files : audioFile[f].scanStatus = "FAIL")
         => calls'.scanFile = calls.scanFile]_vars

\* C31: in scanFolder, once the failure of a member's scan has been recorded
\* in `ok`, no iteration starts a scan; a scan that was started ends
\* with SUCCESS or FAIL; a folder with a failed member ends with status FAIL,
\* returns false and is not aggregated; a folder without one is aggregated
\* exactly once, when all its members have been scanned.
C31_NoScanStartsOnceFailureRecorded ==
    [][/\ ~process.ok => calls'.scanFile = calls.scanFile
       /\ \A t \in Threads :
            pc[t] = "scan" /\ pc'[t] # "scan"
              => audioFile'[iter[t]].scanStatus \in {"SUCCESS", "FAIL"}
       /\ calls'.processResults # calls.processResults
            => /\ calls.processResults[1] = 0
               /\ \A f \in Files : /\ audioFile[f].scanStatus = "SUCCESS"
                                   /\ calls.scanFile[f] = 1
       /\ process'.at = "returned"
            => /\ \A f \in Files : /\ audioFile'[f].scanStatus \in {"INIT", "SUCCESS", "FAIL"}
                                   /\ calls'.scanFile[f] <= 1
               /\ IF \E f \in Files : audioFile'[f].scanStatus = "FAIL"
                  THEN /\ folderStatus'[1] = "FAIL"
                       /\ process'.result = "false"
                       /\ calls'.processResults[1] = 0
                  ELSE calls'.processResults[1] = 1
      ]_vars

\* A member failed, a later one was never scanned, and the folder failed.
C31_Witness ==
    /\ process.at = "returned"
    /\ process.result = "false"
    /\ folderStatus[1] = "FAIL"
    /\ \E f, g \in Files :
         /\ audioFile[f].scanStatus = "FAIL"
         /\ audioFile[g].scanStatus = "INIT"
         /\ calls.scanFile[g] = 0

\* ------------------------------------------- the album loop on one thread
\* C32: with one worker thread, in album mode, processResults runs for a
\* folder at most once, in the iteration of the folder's last member, when
\* every member was scanned with success and no file of a later folder was
\* scanned yet; and the iteration of the last member of a folder whose
\* members all succeeded has run it when it lets go of the folder.
C32_OneThreadLastMemberAggregates ==
    [][(lg.scanAlbum /\ lg.numberOfThreads = 1) =>
         /\ \A u \in 1..MaxFiles :
              calls'.processResults[u] # calls.processResults[u] =>
                /\ calls.processResults[u] = 0
                /\ iter[1] = audioFiles(u)[count(u)]
                /\ nextIter = iter[1] + 1
                /\ \A f \in members(u) : /\ calls.scanFile[f] = 1
                                         /\ audioFile[f].scanStatus = "SUCCESS"
                /\ \A f \in Files : dirOf[f] > u => calls.scanFile[f] = 0
         /\ ( /\ pc[1] = "release"
              /\ iter[1] = audioFiles(folderOf(1))[count(folderOf(1))]
              /\ \A f \in members(folderOf(1)) : ~scanFailed(f) )
              => calls.processResults[folderOf(1)] = 1
      ]_vars

\* One thread has aggregated the first folder while the file of a later
\* folder waits for its scan.
C32_Witness ==
    /\ lg.scanAlbum
    /\ lg.numberOfThreads = 1
    /\ dirOf = <<1, 2>>
    /\ pc[1] = "release"
    /\ iter[1] = 1
    /\ calls.processResults[1] = 1
    /\ calls.scanFile[2] = 0

\* ------------------------------------------------ a folder that has failed
\* processResults of folder u has reported a failure.
processResultsFailed(u) ==
    \E msg \in {"Album loudness fail", "Album loudness range fail",
                "mixing Opus and non-Opus"} : <<msg, u>> \in cerr

\* C33: in album mode, a folder with a member whose scan failed, or whose
\* aggregation failed, has no Album row, and none of its members has a File
\* row or a written tag, whether the member's own scan succeeded or not.
C33_FailedFolderProducesNothing ==
    lg.scanAlbum =>
        \A u \in Folders :
            ((\E f \in members(u) : scanFailed(f)) \/ processResultsFailed(u)) =>
                /\ csvfile.rows[AlbumRec(u)] = 0 /\ stdout.rows[AlbumRec(u)] = 0
                /\ \A f \in members(u) :
                      /\ csvfile.rows[FileRec(f)] = 0 /\ stdout.rows[FileRec(f)] = 0
                      /\ calls.tagWrite[f] = 0

\* The loop has ended with a sink open; in a folder of two scanned members
\* one failed and the other did not.
C33_Witness ==
    /\ lg.scanAlbum /\ Finished
    /\ lg.csvOpen \/ lg.tabOutput
    /\ \E f, g \in members(1) :
          /\ scanFailed(f) /\ ~scanFailed(g)
          /\ calls.scanFile[g] = 1

\* --------------------------------------------- one album gain per folder
\* processFolderResults has run processFileResults on every member of the
\* aggregated folder u and is at its Album row or has returned.
processed(u) ==
    /\ lg.scanAlbum
    /\ u \in DOMAIN folderStatus
    /\ folderStatus[u] = "SUCCESS"
    /\ calls.processFolderResults[u] = 1
    /\ \E t \in Threads : /\ iter[t] # 0 /\ folderOf(t) = u
                          /\ pc[t] \in {"albumRow", "release"}

\* C34: when a folder has been aggregated and its results processed, its
\* members have the same albumGain, albumPeak, albumLoudness,
\* albumLoudnessRange and newAlbumPeak, with or without clip prevention.
C34_MembersShareAlbumValues ==
    \A u \in 1..MaxFiles :
        processed(u) =>
            \A f, g \in members(u) :
                /\ audioFile[f].albumGain = audioFile[g].albumGain
                /\ audioFile[f].albumPeak = audioFile[g].albumPeak
                /\ audioFile[f].albumLoudness = audioFile[g].albumLoudness
                /\ audioFile[f].albumLoudnessRange = audioFile[g].albumLoudnessRange
                /\ audioFile[f].newAlbumPeak = audioFile[g].newAlbumPeak

\* Two members of different loudness and peak were processed, and clip
\* prevention has lowered the album gain to meet the peak limit.
C34_Witness ==
    /\ processed(1)
    /\ Cardinality(members(1)) = 2
    /\ audioFile[1].trackLoudness # audioFile[2].trackLoudness
    /\ audioFile[1].trackPeak # audioFile[2].trackPeak
    /\ \A f \in members(1) :
          /\ audioFile[f].clipPrevention
          /\ audioFile[f].albumGain <
                 LUFS_TO_RG(audioFile[f].albumLoudness) + albumPregain(1, lg.pregain)
          /\ audioFile[f].newAlbumPeak = lg.maxTruePeakLevel

\* ------------------------------------------------- scanLibrary terminates
\* What thread t can do next.
Step(t) ==
    \/ StartScan(t) \/ FinishScan(t) \/ CheckUseCount(t) \/ CanProcess(t)
    \/ ProcessResults(t) \/ FolderResults(t) \/ FileResults(t)
    \/ EnterCritical(t) \/ WriteField(t) \/ Release(t) \/ EndIteration(t)

\* The loop of scanLibrary when every call returns and a thread that can
\* run does run.
LiveSpec == Init /\ [][Next]_vars /\ WF_vars(Next)

\* Every task has let go of its folder and its file, and they are destroyed.
allReleased ==
    /\ \A i \in 1..NFiles : ~held[i]
    /\ DOMAIN audioFile = {}
    /\ DOMAIN folderStatus = {}
    /\ DOMAIN useCount = {}

\* C35: the loop of scanLibrary ends, and when it has ended every task has
\* released its folder and its file; the thread inside a critical section is
\* writing a record and enters no other section; a thread that runs an
\* iteration can always go on unless another thread is inside the critical
\* section, and an iteration that is left is handed out to a free thread.
C35_ScanLibraryTerminates ==
    /\ [](\A t \in 1..MaxThreads :
            t \in Threads =>
              /\ lock = t => pc[t] \in {"csvWrite", "outWrite", "albumCsv", "albumOut"}
              /\ (pc[t] # "idle" /\ lock \in {0, t}) => ENABLED Step(t))
    /\ []((nextIter <= NFiles /\ \E t \in Threads : pc[t] = "idle")
            => ENABLED (\E t \in Threads : StartScan(t)))
    /\ [](Finished => allReleased)
    /\ <>[]Finished

\* Two threads have run an album batch of two files to its end.
C35_Witness ==
    /\ Finished
    /\ allReleased
    /\ lg.scanAlbum
    /\ lg.numberOfThreads = 2
    /\ NFiles = 2
    /\ \A f \in Files : calls.scanFile[f] = 1

\* ------------------- AudioLibrary::getSupportedAudioFilesSortedByFolder
\* The path strings the program can meet, in the order of std::string:
\* '.' sorts before '/', and '/' before the letters.
StringOrder ==
    << << >>, <<".">>, <<".", "c.flac">>, <<".", "d">>, <<".", "d", "a.flac">>,
       <<".", "d", "e.flac">>, <<"c.flac">>, <<"d">>, <<"d", "a.flac">>,
       <<"d", "e.flac">> >>

\* The elements of a std::set or the keys of a std::map, as its iterator
\* gives them.
inOrder(strings) == SelectSeq(StringOrder, LAMBDA x : x \in strings)

\* fs::path(file).parent_path()
parent_path(path) == SubSeq(path, 1, Len(path) - 1)

\* A lookup that finds no folder, so that each file starts its vector anew.
vectorAlwaysNew(sorted, dir) == << >>

\* The vector of `dir`: the one in the map, or the empty one that lines
\* 746-747 insert when sorted.find(dir) == sorted.end().
vectorOf(sorted, dir) == IF dir \in DOMAIN sorted THEN sorted[dir] ELSE << >>

\* The loop of lines 742-750 from the i-th file of the set on.
RECURSIVE sortByFolder(_, _, _)
sortByFolder(files, i, sorted) ==
    IF i > Len(files) THEN sorted
    ELSE LET dir == parent_path(files[i])
         IN sortByFolder(files, i + 1,
                [d \in DOMAIN sorted \cup {dir} |->
                    IF d = dir THEN Append(vectorOf(sorted, dir), files[i])
                    ELSE sorted[d]])

getSupportedAudioFilesSortedByFolder(paths) ==
    sortByFolder(inOrder(getSupportedAudioFiles(paths)), 1, [d \in {} |-> << >>])

\* scan.cpp:636-642: one pair (folder, file) for every file of every vector
\* of the map, folder after folder.
RECURSIVE pairsOf(_, _, _)
pairsOf(sorted, keys, k) ==
    IF k > Len(keys) THEN << >>
    ELSE [i \in 1..Len(sorted[keys[k]]) |-> <<keys[k], sorted[keys[k]][i]>>]
         \o pairsOf(sorted, keys, k + 1)

\* The album branch of scanLibrary up to its loop.
SortByFolder ==
    /\ process.at = "setLibraryPaths"
    /\ LET sorted == getSupportedAudioFilesSortedByFolder(process.libraryPaths)
       IN process' = [at |-> "albumLoop",
                      libraryPaths |-> process.libraryPaths,
                      files |-> getSupportedAudioFiles(process.libraryPaths),
                      sorted_audio_files |-> sorted,
                      audio_files |-> pairsOf(sorted, inOrder(DOMAIN sorted), 1)]
    /\ UNCHANGED <<lg, dirOf, audioFile, folderStatus, useCount, held, nextIter, pc,
                   iter, member, field, lock, csvfile, stdout, cerr, calls>>

SortedSpec == LibraryInit /\ [][SortByFolder]_vars

\* C36: every accepted file is in the vector of exactly one folder of the
\* map, once, and that folder is the file's parent path; no vector is empty
\* and the vectors hold accepted files only; the album loop has one
\* iteration for every accepted file.
C36_FoldersPartitionFiles ==
    process.at = "albumLoop" =>
        LET sorted == process.sorted_audio_files
            places(f) == { <<d, i>> \in (DOMAIN sorted) \X (1..Len(process.audio_files)) :
                              i <= Len(sorted[d]) /\ sorted[d][i] = f }
            tasks(f) == { i \in 1..Len(process.audio_files) :
                              process.audio_files[i][2] = f }
        IN /\ \A f \in process.files :
                /\ Cardinality(places(f)) = 1
                /\ \A pl \in places(f) : Append(pl[1], f[Len(f)]) = f
                /\ Cardinality(tasks(f)) = 1
           /\ \A d \in DOMAIN sorted :
                /\ Len(sorted[d]) >= 1
                /\ \A i \in 1..Len(sorted[d]) : sorted[d][i] \in process.files
           /\ Len(process.audio_files) = Cardinality(process.files)

\* Two directories were given: the two files of one of them share a vector
\* and the map has a folder for each spelling of the directory.
C36_Witness ==
    /\ process.at = "albumLoop"
    /\ Cardinality(DOMAIN process.sorted_audio_files) = 2
    /\ \E d \in DOMAIN process.sorted_audio_files : Len(process.sorted_audio_files[d]) = 2
    /\ Len(process.audio_files) = 4

\* ------------------------- setPreventClipping and setMaxTruePeakLevel
\* The calls of the two setters a LoudGain object gets: those of main, and
\* after them any others, in any order.
MaxCalls == 3

setPreventClipping(l, enable) == [l EXCEPT !.preventClipping = enable]

SetterInit ==
    /\ process = [at |-> "256", trace |-> << >>]
    /\ NoScan

SetterRest ==
    UNCHANGED <<dirOf, audioFile, folderStatus, useCount, held, nextIter, pc, iter,
                member, field, lock, csvfile, stdout, cerr, calls>>

\* main.cpp:256  lg.setPreventClipping(parser.get<bool>("--prevent-clipping"));
PreventClippingFlag ==
    /\ process.at = "256"
    /\ \E enable \in BOOLEAN :
         /\ lg' = setPreventClipping(lg, enable)
         /\ process' = [at |-> "257",
                        trace |-> Append(process.trace,
                                         [fn |-> "setPreventClipping", arg |-> enable])]
    /\ SetterRest

\* main.cpp:257-258  the call is made when the option is present.
MaxTruePeakLevelOption ==
    /\ process.at = "257"
    /\ \/ /\ lg' = lg
          /\ process' = [process EXCEPT !.at = "later"]
       \/ \E mtpl \in PeakLevelArgs :
            /\ lg' = setMaxTruePeakLevel(lg, mtpl)
            /\ process' = [at |-> "later",
                           trace |-> Append(process.trace,
                                            [fn |-> "setMaxTruePeakLevel", arg |-> mtpl])]
    /\ SetterRest

\* Any later call of one of the two setters.
LaterCall ==
    /\ process.at = "later"
    /\ Len(process.trace) < MaxCalls
    /\ \/ \E enable \in BOOLEAN :
            /\ lg' = setPreventClipping(lg, enable)
            /\ process' = [process EXCEPT !.trace =
                              Append(@, [fn |-> "setPreventClipping", arg |-> enable])]
       \/ \E mtpl \in PeakLevelArgs :
            /\ lg' = setMaxTruePeakLevel(lg, mtpl)
            /\ process' = [process EXCEPT !.trace =
                              Append(@, [fn |-> "setMaxTruePeakLevel", arg |-> mtpl])]
    /\ SetterRest

SetterNext == PreventClippingFlag \/ MaxTruePeakLevelOption \/ LaterCall

SetterSpec == SetterInit /\ [][SetterNext]_vars

\* C37: a call of setMaxTruePeakLevel leaves preventClipping true, whatever
\* it was; a call of setPreventClipping leaves preventClipping as its
\* argument says and maxTruePeakLevel as it was; and when main has given
\* a level, prevention is on though the flag was absent.
C37_PeakLevelEnablesPrevention ==
    [][/\ Len(process'.trace) > Len(process.trace) =>
            LET call == process'.trace[Len(process'.trace)]
            IN IF call.fn = "setMaxTruePeakLevel"
               THEN lg'.preventClipping
               ELSE /\ lg'.preventClipping = call.arg
                    /\ lg'.maxTruePeakLevel = lg.maxTruePeakLevel
       /\ ( /\ process.at = "257" /\ process'.at = "later"
            /\ Len(process'.trace) = 2 ) => lg'.preventClipping
      ]_vars

\* main gave a level without the flag, which turned prevention on; a later
\* setPreventClipping(false) has turned it off and the level is still there.
C37_Witness ==
    /\ Len(process.trace) = 3
    /\ process.trace[1] = [fn |-> "setPreventClipping", arg |-> FALSE]
    /\ process.trace[2] = [fn |-> "setMaxTruePeakLevel", arg |-> -32]
    /\ process.trace[3] = [fn |-> "setPreventClipping", arg |-> FALSE]
    /\ ~lg.preventClipping
    /\ lg.maxTruePeakLevel = -32

\* ---------------------------------- processResults on a finished folder
\* scanFolder has returned and left the folder SUCCESS or FAIL; its caller
\* calls processResults on it once more.
ProcessResultsAgain ==
    /\ process.at = "returned"
    /\ \E ans \in Ebur128Answers(1) :
         LET r == processResults(1, lg.pregain, ans)
         IN /\ folderStatus' = [folderStatus EXCEPT ![1] = r.status]
            /\ audioFile' = r.files
            /\ cerr' = IF r.msg = "" THEN cerr ELSE cerr \cup {<<r.msg, 1>>}
            /\ process' = [process EXCEPT
                             !.at = "again",
                             !.result = IF r.status = "SUCCESS" THEN "true" ELSE "false"]
    /\ calls' = Bump(calls, "processResults", 1)
    /\ UNCHANGED <<lg, dirOf, useCount, held, nextIter, pc, iter, member, field,
                   lock, csvfile, stdout>>

TerminalSpec == FolderInit /\ [][FolderNext \/ ProcessResultsAgain]_vars

\* C38: processResults on a folder whose status is SUCCESS returns true, on
\* one whose status is FAIL returns false, and in both cases it changes no
\* field of the folder or of its members and reports nothing.
C38_ProcessResultsKeepsTerminal ==
    [][(process.at = "returned" /\ process'.at = "again") =>
         /\ folderStatus[1] \in {"SUCCESS", "FAIL"}
         /\ process'.result = (IF folderStatus[1] = "SUCCESS" THEN "true" ELSE "false")
         /\ folderStatus' = folderStatus
         /\ audioFile' = audioFile
         /\ cerr' = cerr
      ]_vars

\* processResults was called again on an aggregated folder of two members
\* and returned true.
C38_Witness ==
    /\ process.at = "again"
    /\ process.result = "true"
    /\ folderStatus[1] = "SUCCESS"
    /\ NFiles = 2
    /\ calls.processResults[1] = 2
    /\ \A f \in Files : audioFile[f].albumPeak # NegInf

====
